---------------------------- MODULE Spec2Model ----------------------------
(***************************************************************************)
(* Model of the word-count tracking engine of obsidian-daily-heatmap       *)
(* (src/src/wordCounter.ts, class WordCounter) together with the host      *)
(* collaborators it consumes: the vault (documents), the raw file adapter  *)
(* (storage), the plugin data file and the workspace (layout-ready signal  *)
(* and the 'heatmap-update' event).                                        *)
(*                                                                         *)
(* JavaScript runs the class on one thread: a step of the model is the     *)
(* code that runs between two suspension points (await).                   *)
(***************************************************************************)
EXTENDS Integers, Sequences, FiniteSets, Bags, TLC

(***************************************************************************)
(* Bounds of the model.                                                    *)
(***************************************************************************)
\* how many updateWordCount / resetToday calls may be in flight at once
MaxCalls == 2
\* how many midnights pass
MaxTicks == 1
\* how many calls the host makes to the tracker (of updateWordCount, of
\* resetToday and of scheduleSyncFileCounts)
MaxOps == 2

(***************************************************************************)
(* Partial mappings (JavaScript objects used as dictionaries): a function  *)
(* whose DOMAIN is the set of own keys.  m[k] === undefined is             *)
(* k \notin DOMAIN m.                                                      *)
(***************************************************************************)
EmptyMap == [k \in {} |-> 0]

Has(m, k) == k \in DOMAIN m

Put(m, k, v) == [x \in (DOMAIN m) \cup {k} |-> IF x = k THEN v ELSE m[x]]

Del(m, k) == [x \in (DOMAIN m) \ {k} |-> m[x]]

\* m[k] || 0
GetOr0(m, k) == IF Has(m, k) /\ m[k] # 0 THEN m[k] ELSE 0

(***************************************************************************)
(* Texts are sequences of UTF-16 code units.                               *)
(***************************************************************************)
Backtick == 96
LBracket == 91
RBracket == 93
LParen == 40
RParen == 41
CJKFirst == 19968
CJKLast == 40869

\* the characters of the class [-#*_~`>]
MarkdownPunct == {45, 35, 42, 95, 126, 96, 62}

\* the characters of \s
WhiteSpace == {9, 10, 11, 12, 13, 32, 160, 5760, 8232, 8233, 8239, 8287, 12288, 65279}
                 \cup (8192..8202)

IsCJK(c) == c >= CJKFirst /\ c <= CJKLast

Drop(s, n) == SubSeq(s, n + 1, Len(s))

\* least i >= from with Pred holding at i, or 0
FirstFrom(s, from, c) ==
    LET hits == {i \in from..Len(s) : s[i] = c}
    IN IF hits = {} THEN 0 ELSE CHOOSE i \in hits : \A j \in hits : i <= j

IsFenceAt(s, i) ==
    i + 2 <= Len(s) /\ s[i] = Backtick /\ s[i+1] = Backtick /\ s[i+2] = Backtick

FirstFenceFrom(s, from) ==
    LET hits == {i \in from..Len(s) : IsFenceAt(s, i)}
    IN IF hits = {} THEN 0 ELSE CHOOSE i \in hits : \A j \in hits : i <= j

\* .replace(/```[\s\S]*?```/g, '')
RECURSIVE StripFences(_)
StripFences(s) ==
    IF s = <<>> THEN <<>>
    ELSE IF IsFenceAt(s, 1) /\ FirstFenceFrom(s, 4) # 0
         THEN StripFences(Drop(s, FirstFenceFrom(s, 4) + 2))
         ELSE <<s[1]>> \o StripFences(Tail(s))

\* .replace(/`[^`]*`/g, '')
RECURSIVE StripInlineCode(_)
StripInlineCode(s) ==
    IF s = <<>> THEN <<>>
    ELSE IF s[1] = Backtick /\ FirstFrom(s, 2, Backtick) # 0
         THEN StripInlineCode(Drop(s, FirstFrom(s, 2, Backtick)))
         ELSE <<s[1]>> \o StripInlineCode(Tail(s))

\* .replace(/\[([^\]]*)\]\([^)]*\)/g, '$1')
RECURSIVE ReplaceLinks(_)
ReplaceLinks(s) ==
    IF s = <<>> THEN <<>>
    ELSE LET close == FirstFrom(s, 2, RBracket)
             paren == IF close # 0 /\ close + 1 <= Len(s) /\ s[close + 1] = LParen
                      THEN FirstFrom(s, close + 2, RParen) ELSE 0
         IN IF s[1] = LBracket /\ paren # 0
            THEN SubSeq(s, 2, close - 1) \o ReplaceLinks(Drop(s, paren))
            ELSE <<s[1]>> \o ReplaceLinks(Tail(s))

\* .replace(/[-#*_~`>]/g, '')
StripPunct(s) == SelectSeq(s, LAMBDA c : c \notin MarkdownPunct)

\* .trim()
RECURSIVE TrimLeft(_)
TrimLeft(s) ==
    IF s # <<>> /\ s[1] \in WhiteSpace THEN TrimLeft(Tail(s)) ELSE s

RECURSIVE TrimRight(_)
TrimRight(s) ==
    IF s # <<>> /\ s[Len(s)] \in WhiteSpace
    THEN TrimRight(SubSeq(s, 1, Len(s) - 1)) ELSE s

Trim(s) == TrimRight(TrimLeft(s))

CleanText(text) == Trim(StripPunct(ReplaceLinks(StripInlineCode(StripFences(text)))))

\* (cleanText.match(/[一-龥]/g) || []).length
ChineseChars(s) == Len(SelectSeq(s, IsCJK))

\* .replace(/[一-龥]/g, ' ').split(/\s+/).filter(word => word.length > 0).length
EnglishWords(s) ==
    LET t == [i \in 1..Len(s) |-> IF IsCJK(s[i]) THEN 32 ELSE s[i]]
    IN Cardinality({i \in 1..Len(t) :
           t[i] \notin WhiteSpace /\ (i = 1 \/ t[i-1] \in WhiteSpace)})

\* a variant that counts the text as it is
countWordsRaw(text) == ChineseChars(text) + EnglishWords(text)

countWords(text) == ChineseChars(CleanText(text)) + EnglishWords(CleanText(text))


(***************************************************************************)
(* Calendar.  A Date value is [year, month (1..12), day]; the clock of the *)
(* host is the number of midnights passed since StartDate.                 *)
(***************************************************************************)
StartDate == [year |-> 2025, month |-> 12, day |-> 31]
\* the day before, on which the earlier session wrote
PreviousDate == [year |-> 2025, month |-> 12, day |-> 30]

IsLeap(y) == (y % 4 = 0 /\ y % 100 # 0) \/ y % 400 = 0

DaysInMonth(y, m) ==
    IF m = 2 THEN (IF IsLeap(y) THEN 29 ELSE 28)
    ELSE IF m \in {4, 6, 9, 11} THEN 30 ELSE 31

NextDate(d) ==
    IF d.day < DaysInMonth(d.year, d.month) THEN [d EXCEPT !.day = d.day + 1]
    ELSE IF d.month < 12 THEN [d EXCEPT !.month = d.month + 1, !.day = 1]
    ELSE [year |-> d.year + 1, month |-> 1, day |-> 1]

RECURSIVE AddDays(_, _)
AddDays(d, n) == IF n = 0 THEN d ELSE AddDays(NextDate(d), n - 1)

\* value < 10 ? `0${value}` : `${value}`   (the two digits of the result)
padToTwoDigits(value) ==
    IF value < 10 THEN <<0, value>> ELSE <<value \div 10, value % 10>>

\* `${year}-${month}-${day}`: the three fields of the YYYY-MM-DD string
formatLocalDate(date) ==
    <<date.year, padToTwoDigits(date.month), padToTwoDigits(date.day)>>

(***************************************************************************)
(* The documents of the vault and the texts the user writes.               *)
(***************************************************************************)
\* TFile values: path and extension
Files == { [path |-> "a.md", extension |-> "md"],
           [path |-> "b.md", extension |-> "md"],
           [path |-> "n.txt", extension |-> "txt"] }

MdPaths == {f.path : f \in {g \in Files : g.extension = "md"}}

\* the order in which the vault lists its markdown files
VaultOrder == <<"a.md", "b.md">>

\* ""
TextEmpty == <<>>
\* "# hi `x y`"
TextHeading == <<35, 32, 104, 105, 32, 96, 120, 32, 121, 96>>
\* "你好 w"
TextMixed == <<20320, 22909, 32, 119>>

\* the texts the reads of the model return
Texts == {TextEmpty, TextMixed}

(***************************************************************************)
(* Storage.  A file of the adapter is a record: NoFile for a path that     *)
(* does not exist, EmptyFile for "", MalformedFile for a text JSON.parse   *)
(* rejects, and JSONFile(ms) for the text of a JSON object, kept as the    *)
(* set of its members <<name, value>> (the order and the indentation of    *)
(* the text carry no information JSON.parse returns).                      *)
(***************************************************************************)
NoFile == [kind |-> "nofile"]
EmptyFile == [kind |-> "empty"]
MalformedFile == [kind |-> "malformed"]
JSONFile(ms) == [kind |-> "json", members |-> ms]

\* the value null
Null == [null |-> TRUE]

Members(m) == {<<k, m[k]>> : k \in DOMAIN m}

\* the object a set of members denotes
ObjectOf(ms) == [k \in {e[1] : e \in ms} |-> (CHOOSE e \in ms : e[1] = k)[2]]

\* JSON.stringify(data, null, 2): the members of data, each a dictionary
JSONStringify(d) == JSONFile({<<n, Members(d[n])>> : n \in DOMAIN d})

\* JSON.parse(raw) of a text JSON.parse accepts
JSONParse(raw) ==
    [n \in {e[1] : e \in raw.members} |->
        ObjectOf((CHOOSE e \in raw.members : e[1] = n)[2])]

\* a variant that reads the fields of source without the ?. and the || {}
normalizeDataStrict(source) ==
    IF source = Null \/ {"dailyCounts", "fileWordCounts"} \ DOMAIN source # {}
    THEN [thrown |-> TRUE]
    ELSE [dailyCounts |-> source.dailyCounts,
          fileWordCounts |-> source.fileWordCounts]

\* a variant that keeps the daily counts only
normalizeDataTotalsOnly(source) ==
    [dailyCounts |-> IF source # Null /\ "dailyCounts" \in DOMAIN source
                     THEN source.dailyCounts ELSE EmptyMap,
     fileWordCounts |-> EmptyMap]

\* source?.dailyCounts || {}, source?.fileWordCounts || {}
normalizeData(source) ==
    [dailyCounts |-> IF source # Null /\ "dailyCounts" \in DOMAIN source
                     THEN source.dailyCounts ELSE EmptyMap,
     fileWordCounts |-> IF source # Null /\ "fileWordCounts" \in DOMAIN source
                        THEN source.fileWordCounts ELSE EmptyMap]

\* DEFAULT_SETTINGS (settings.ts), the thresholds
DEFAULT_SETTINGS ==
    [level1Threshold |-> 100, level2Threshold |-> 300,
     level3Threshold |-> 600, maxThreshold |-> 1000]

\* the data of the constructor
EmptyData == [dailyCounts |-> EmptyMap, fileWordCounts |-> EmptyMap]

\* a state saved by an earlier session: one day recorded, two baselines
SavedData ==
    [dailyCounts |-> Put(EmptyMap, formatLocalDate(PreviousDate), 2),
     fileWordCounts |-> Put(Put(EmptyMap, "a.md", 1), "b.md", 1)]

(***************************************************************************)
(* State.                                                                  *)
(***************************************************************************)
VARIABLES
    data,         \* WordCounter.data: [dailyCounts, fileWordCounts]
    initialized,  \* WordCounter.initialized
    syncPromise,  \* WordCounter.syncPromise is not null
    passes,       \* the reconciliation passes (syncFileCounts) in flight
    calls,        \* the updateWordCount and resetToday calls in flight (a bag)
    load,         \* where loadData stands: "new", "store", "plugin", "done",
                  \* or "failed" (loadData has rejected)
    scheduled,    \* scheduleBackgroundSync has run
    layoutReady,  \* workspace.layoutReady
    ops,          \* how many calls the host has made to the tracker
    disk,         \* the adapter's files: [current, legacy]
    pluginData,   \* what plugin.loadData() returns (data.json)
    clock,        \* midnights passed since StartDate
    exported,     \* the summary exportData() returned last, which its
                  \* caller holds; Null before the first call
    pluginSettings, \* plugin.settings, the thresholds
    vault,        \* the text of each markdown document, in the
                  \* specification that follows the texts (SpecEdits);
                  \* Null where a read may return any text
    last          \* the call made by the step taken last (history)

vars == <<data, initialized, syncPromise, passes, calls, load, scheduled,
          layoutReady, ops, disk, pluginData, clock, exported,
          pluginSettings, vault, last>>

\* a step of which last keeps nothing
Other == [op |-> "other"]

\* getTodayString(): formatLocalDate(new Date())
getTodayString == formatLocalDate(AddDays(StartDate, clock))

\* getTodayCount() (lines 206-208): dailyCounts[today] || 0
getTodayCount == GetOr0(data.dailyCounts, getTodayString)

\* vault.getMarkdownFiles(), as paths, when the markdown documents of the
\* vault are those of live
getMarkdownFiles(live) == SelectSeq(VaultOrder, LAMBDA p : p \in live)

\* what vault.read and vault.cachedRead can settle with: the text of the
\* document, or an I/O error (the document is gone or unreadable)
ReadFailed == [ok |-> FALSE]
ReadOk(text) == [ok |-> TRUE, text |-> text]
ReadResults == {ReadFailed} \cup {ReadOk(t) : t \in Texts}

Range(seq) == {seq[i] : i \in 1..Len(seq)}

One(c) == SetToBag({c})

InFlight == BagCardinality(calls)

(***************************************************************************)
(* The store: readExternalData and writeExternalData.                      *)
(***************************************************************************)
\* adapter.write(DATA_FILE_PATH, text): ok is whether the write succeeds;
\* a failure is caught and logged (lines 301-303)
AdapterWrite(d, text, ok) == IF ok THEN [d EXCEPT !.current = text] ELSE d

\* an exception thrown to the caller
Thrown == [thrown |-> TRUE]

\* a variant without the try/catch of lines 296-303
writeExternalDataUncaught(d, text, ok) ==
    [disk |-> AdapterWrite(d, text, ok), thrown |-> ~ok]

\* writeExternalData(data), text being JSON.stringify(data, null, 2): the
\* files afterwards and whether an exception reaches the caller
writeExternalData(d, text, ok) ==
    [disk |-> AdapterWrite(d, text, ok), thrown |-> FALSE]

\* a variant that looks for the legacy file first
tryReadExternalDataLegacyFirst(d, io) ==
    LET target == IF d.legacy # NoFile THEN "legacy"
                  ELSE IF d.current # NoFile THEN "current" ELSE "none"
    IN  IF target = "none" THEN [result |-> Null, disk |-> d]
        ELSE IF ~io.read \/ d[target] = MalformedFile
        THEN [result |-> Thrown, disk |-> d]
        ELSE LET raw == d[target]
                 parsed == IF raw = EmptyFile THEN EmptyMap ELSE JSONParse(raw)
                 normalized == normalizeData(parsed)
                 written == [disk |-> AdapterWrite(d, JSONStringify(normalized),
                                                   io.write),
                             thrown |-> FALSE]
             IN  IF target = "legacy"
                 THEN IF written.thrown \/ ~io.remove
                      THEN [result |-> Thrown, disk |-> written.disk]
                      ELSE [result |-> normalized,
                            disk |-> [written.disk EXCEPT !.legacy = NoFile]]
                 ELSE [result |-> normalized, disk |-> d]

\* lines 268-288, the body of the try block of readExternalData: io says
\* which adapter calls succeed.  The result is the value returned, or
\* Thrown, and the files afterwards.
tryReadExternalData(d, io) ==
    LET target == IF d.current # NoFile THEN "current"
                  ELSE IF d.legacy # NoFile THEN "legacy" ELSE "none"
    IN  IF target = "none" THEN [result |-> Null, disk |-> d]
        ELSE IF ~io.read \/ d[target] = MalformedFile
        THEN [result |-> Thrown, disk |-> d]
        ELSE LET raw == d[target]
                 parsed == IF raw = EmptyFile THEN EmptyMap ELSE JSONParse(raw)
                 normalized == normalizeData(parsed)
                 written == writeExternalData(d, JSONStringify(normalized), io.write)
             IN  IF target = "legacy"
                 THEN IF written.thrown \/ ~io.remove
                      THEN [result |-> Thrown, disk |-> written.disk]
                      ELSE [result |-> normalized,
                            disk |-> [written.disk EXCEPT !.legacy = NoFile]]
                 ELSE [result |-> normalized, disk |-> d]

\* a variant without the catch of lines 289-292
readExternalDataUncaught(d, io) == tryReadExternalData(d, io)

\* a variant that reads the legacy file and leaves the files as they are
readExternalDataInPlace(d, io) ==
    LET r == tryReadExternalData(d, io)
    IN  IF r.result = Thrown THEN [result |-> Null, disk |-> d]
        ELSE [result |-> r.result, disk |-> d]

\* readExternalData(): the try block, and the catch of lines 289-292,
\* which returns null
readExternalData(d, io) ==
    LET r == tryReadExternalData(d, io)
    IN  IF r.result = Thrown THEN [r EXCEPT !.result = Null] ELSE r

IOOutcomes == [read : BOOLEAN, write : BOOLEAN, remove : BOOLEAN]

(***************************************************************************)
(* loadData (lines 38-54), in the steps its awaits cut it into.            *)
(***************************************************************************)
\* a variant that leaves initialized to the end of the pass
FinishLoadUninitialized(d) ==
    /\ data' = d
    /\ initialized' = initialized
    /\ scheduled' = TRUE
    /\ load' = "done"

\* lines 49-53: initialized = true; scheduleBackgroundSync()
FinishLoad(d) ==
    /\ data' = d
    /\ initialized' = TRUE
    /\ scheduled' = TRUE
    /\ load' = "done"

\* loadData() is called: readExternalData starts
LoadCall ==
    /\ load = "new"
    /\ load' = "store"
    /\ last' = Other
    /\ UNCHANGED <<pluginSettings, vault, exported, data, initialized, syncPromise, passes, calls, scheduled,
                   layoutReady, ops, disk, pluginData, clock>>

\* readExternalData has returned (line 39)
LoadStore ==
    /\ load = "store"
    /\ \E io \in IOOutcomes :
         LET r == readExternalData(disk, io)
         IN  /\ disk' = r.disk
             /\ IF r.result = Thrown
                THEN \* the await of line 39 rejects: loadData rejects
                     /\ load' = "failed"
                     /\ UNCHANGED <<data, initialized, scheduled>>
                ELSE IF r.result # Null
                THEN FinishLoad(r.result)
                ELSE /\ load' = "plugin"
                     /\ UNCHANGED <<data, initialized, scheduled>>
             /\ last' = [op |-> "readExternalData", io |-> io]
    /\ UNCHANGED <<pluginSettings, vault, exported, syncPromise, passes, calls, layoutReady, ops,
                   pluginData, clock>>

\* a variant that never takes the counts of data.json
hasLegacyCountsNever(legacyData) == FALSE

\* line 44: legacyData && (legacyData.dailyCounts || legacyData.fileWordCounts)
hasLegacyCounts(legacyData) ==
    legacyData # Null /\ ("dailyCounts" \in DOMAIN legacyData
                          \/ "fileWordCounts" \in DOMAIN legacyData)

\* plugin.loadData() has returned (lines 43-46)
LoadPlugin ==
    /\ load = "plugin"
    /\ LET legacyData == pluginData
       IN  IF hasLegacyCounts(legacyData)
           THEN FinishLoad(normalizeData(legacyData))
           ELSE FinishLoad(data)
    /\ last' = Other
    /\ UNCHANGED <<pluginSettings, vault, exported, syncPromise, passes, calls, layoutReady, ops, disk,
                   pluginData, clock>>

(***************************************************************************)
(* updateWordCount (lines 154-186).  A call in flight is a record of the   *)
(* bag calls: its pc is "read" (vault.read pending), "cont" (vault.read    *)
(* settled with content) or "write" (saveData pending; the locals          *)
(* currentCount and lastCount of the call are kept, lastCount as <<>> when *)
(* undefined and <<n>> otherwise).                                         *)
(***************************************************************************)
\* a variant that lacks the guard of lines 155-158
acceptsUninitialized(file) == file.extension = "md"

\* lines 155-160: the two guards
accepts(file) == initialized /\ file.extension = "md"

\* a variant that keeps the highest count seen as the baseline
updateCountsHighWater(d, path, currentCount, today) ==
    IF ~Has(d.fileWordCounts, path)
    THEN [d EXCEPT !.fileWordCounts = Put(@, path, currentCount)]
    ELSE LET diff == currentCount - d.fileWordCounts[path]
         IN  IF diff > 0
             THEN [dailyCounts |->
                       Put(d.dailyCounts, today, GetOr0(d.dailyCounts, today) + diff),
                   fileWordCounts |-> Put(d.fileWordCounts, path, currentCount)]
             ELSE d

\* a variant that credits the content of a first-seen document to today
updateCountsCreditNew(d, path, currentCount, today) ==
    LET lastCount == GetOr0(d.fileWordCounts, path)
        diff == currentCount - lastCount
    IN  [dailyCounts |->
             IF diff > 0
             THEN Put(d.dailyCounts, today, GetOr0(d.dailyCounts, today) + diff)
             ELSE d.dailyCounts,
         fileWordCounts |-> Put(d.fileWordCounts, path, currentCount)]

\* a variant that adds the difference whatever its sign
updateCountsSigned(d, path, currentCount, today) ==
    IF ~Has(d.fileWordCounts, path)
    THEN [d EXCEPT !.fileWordCounts = Put(@, path, currentCount)]
    ELSE LET diff == currentCount - d.fileWordCounts[path]
         IN  [dailyCounts |->
                  IF diff # 0
                  THEN Put(d.dailyCounts, today, GetOr0(d.dailyCounts, today) + diff)
                  ELSE d.dailyCounts,
              fileWordCounts |-> Put(d.fileWordCounts, path, currentCount)]

\* a variant that takes deleted words back from today, down to zero
updateCountsFloored(d, path, currentCount, today) ==
    IF ~Has(d.fileWordCounts, path)
    THEN [d EXCEPT !.fileWordCounts = Put(@, path, currentCount)]
    ELSE LET diff == currentCount - d.fileWordCounts[path]
             sum == GetOr0(d.dailyCounts, today) + diff
         IN  [dailyCounts |->
                  IF diff # 0
                  THEN Put(d.dailyCounts, today, IF sum > 0 THEN sum ELSE 0)
                  ELSE d.dailyCounts,
              fileWordCounts |-> Put(d.fileWordCounts, path, currentCount)]

\* a variant that writes the growth over today's total
updateCountsOverwrite(d, path, currentCount, today) ==
    IF ~Has(d.fileWordCounts, path)
    THEN [d EXCEPT !.fileWordCounts = Put(@, path, currentCount)]
    ELSE LET diff == currentCount - d.fileWordCounts[path]
         IN  [dailyCounts |->
                  IF diff > 0 THEN Put(d.dailyCounts, today, diff)
                  ELSE d.dailyCounts,
              fileWordCounts |-> Put(d.fileWordCounts, path, currentCount)]

\* lines 166-182: the new data, given the count of the content read
updateCounts(d, path, currentCount, today) ==
    IF ~Has(d.fileWordCounts, path)
    THEN [d EXCEPT !.fileWordCounts = Put(@, path, currentCount)]
    ELSE LET diff == currentCount - d.fileWordCounts[path]
         IN  [dailyCounts |->
                  IF diff > 0
                  THEN Put(d.dailyCounts, today, GetOr0(d.dailyCounts, today) + diff)
                  ELSE d.dailyCounts,
              fileWordCounts |-> Put(d.fileWordCounts, path, currentCount)]

\* the passes in flight have seen a processed update or a reset
Disturbed(ps) == [k \in DOMAIN ps |-> [ps[k] EXCEPT !.quiet = FALSE]]

\* updateWordCount(file) is called: returns at once, or starts vault.read
UpdateWordCount(file) ==
    /\ ops < MaxOps
    /\ ops' = ops + 1
    /\ IF accepts(file)
       THEN /\ InFlight < MaxCalls
            /\ calls' = calls (+) One([kind |-> "update", pc |-> "read",
                                       path |-> file.path])
       ELSE UNCHANGED calls
    /\ last' = [op |-> "updateWordCount", initialized |-> initialized,
                extension |-> file.extension]
    /\ UNCHANGED <<pluginSettings, vault, exported, data, initialized, syncPromise, passes, load, scheduled,
                   layoutReady, disk, pluginData, clock>>

\* a variant that takes an unreadable document for an empty one
onUpdateReadErrorEmpty(c) ==
    One([kind |-> "update", pc |-> "cont", path |-> c.path, content |-> TextEmpty])

\* line 162: the await rejects and updateWordCount has no try: what is
\* left in flight of the call c
onUpdateReadError(c) == EmptyBag

\* vault.read(file) reads the document, or fails (line 162)
UpdateRead(c) ==
    /\ c.kind = "update" /\ c.pc = "read"
    /\ \E r \in ReadResults :
         IF r.ok
         THEN /\ calls' = (calls (-) One(c)) (+)
                          One([kind |-> "update", pc |-> "cont", path |-> c.path,
                               content |-> r.text])
              /\ last' = Other
         ELSE \* the rejection propagates to the caller: the call ends
              /\ calls' = (calls (-) One(c)) (+) onUpdateReadError(c)
              /\ last' = [op |-> "vault.read rejected"]
    /\ UNCHANGED <<pluginSettings, vault, exported, data, initialized, syncPromise, passes, load, scheduled,
                   layoutReady, ops, disk, pluginData, clock>>

\* lines 163-184: count, compare with the baseline, call saveData
UpdateApply(c) ==
    /\ c.kind = "update" /\ c.pc = "cont"
    /\ LET currentCount == countWords(c.content)
           today == getTodayString
           lastCount == IF Has(data.fileWordCounts, c.path)
                        THEN <<data.fileWordCounts[c.path]>> ELSE <<>>
       IN  /\ data' = updateCounts(data, c.path, currentCount, today)
           /\ calls' = (calls (-) One(c)) (+)
                       One([kind |-> "update", pc |-> "write", path |-> c.path,
                            currentCount |-> currentCount, lastCount |-> lastCount,
                            payload |-> JSONStringify(data')])
    /\ passes' = Disturbed(passes)
    /\ last' = Other
    /\ UNCHANGED <<pluginSettings, vault, exported, initialized, syncPromise, load, scheduled, layoutReady,
                   ops, disk, pluginData, clock>>

(***************************************************************************)
(* resetToday (lines 210-215).                                             *)
(***************************************************************************)
\* a variant that forgets the baselines as well
resetCountsAndBaselines(d, today) ==
    [dailyCounts |-> Put(d.dailyCounts, today, 0), fileWordCounts |-> EmptyMap]

\* lines 211-212
resetCounts(d, today) == [d EXCEPT !.dailyCounts = Put(@, today, 0)]

\* resetToday() is called, by the button of the settings tab, which the
\* plugin adds once loadData has returned (main.ts, onload)
ResetToday ==
    /\ load = "done"
    /\ InFlight < MaxCalls /\ ops < MaxOps
    /\ ops' = ops + 1
    /\ data' = resetCounts(data, getTodayString)
    /\ calls' = calls (+) One([kind |-> "reset", pc |-> "write",
                               payload |-> JSONStringify(data')])
    /\ passes' = Disturbed(passes)
    /\ last' = Other
    /\ UNCHANGED <<pluginSettings, vault, exported, initialized, syncPromise, load, scheduled, layoutReady,
                   disk, pluginData, clock>>

\* a variant that saves and tells nobody
afterSaveSilent(thrown) ==
    IF thrown THEN [op |-> "saveData rejected"] ELSE Other

\* lines 184-185 and 213-214: `await this.saveData(); this.notifyUpdate()`:
\* what the call does when the await settles
afterSave(thrown) ==
    IF thrown THEN [op |-> "saveData rejected"] ELSE [op |-> "notifyUpdate"]

\* lines 122-126: what syncFileCounts does when the await of saveData
\* settles: it logs and returns (no notifyUpdate)
afterSyncSave == Other

\* saveData has returned in updateWordCount or resetToday, its write having
\* succeeded or not (ok), then notifyUpdate() (lines 185, 214)
SaveSettles(c, ok) ==
    /\ c.pc = "write"
    /\ LET w == writeExternalData(disk, c.payload, ok)
       IN  /\ disk' = w.disk
           /\ last' = afterSave(w.thrown)
    /\ calls' = calls (-) One(c)
    /\ UNCHANGED <<pluginSettings, vault, exported, data, initialized, syncPromise, passes, load, scheduled,
                   layoutReady, ops, pluginData, clock>>

\* the write succeeds or fails (lines 295-304)
SaveDone(c) == \E ok \in BOOLEAN : SaveSettles(c, ok)

(***************************************************************************)
(* The reconciliation pass: scheduleSyncFileCounts (lines 65-82) and       *)
(* syncFileCounts (lines 90-127).  A pass in flight is a record            *)
(*   pc          "read" (cachedRead pending), "cont" (cachedRead settled), *)
(*               "write" (saveData pending), "end" (syncFileCounts has     *)
(*               returned, the finally block has not run yet)              *)
(*   files       the files of line 91                                      *)
(*   i           the index in files of the file being read                 *)
(*   hasChanges  the local of line 95                                      *)
(*   content     what cachedRead gave                                      *)
(*   payload     the text handed to adapter.write                          *)
(* and, as history, start (the data when the pass started), quiet (since   *)
(* the pass started no updateWordCount and no resetToday changed the data),*)
(* readsOk (no cachedRead of the pass failed), seeded (for each path the   *)
(* pass wrote a baseline for, the text cachedRead gave), failed (the paths *)
(* whose cachedRead failed) and saved (saveData has returned in the pass). *)
(***************************************************************************)
\* a variant without the guard
syncInFlightNever == FALSE

\* lines 66-69: the single-flight guard
syncInFlight == syncPromise

\* a variant that drops every baseline, listed or not
pruneDeletedAll(fileWordCounts, files) == EmptyMap

\* a variant that prunes nothing
pruneDeletedNone(fileWordCounts, files) == fileWordCounts

\* lines 98-104: the entries that stay
pruneDeleted(fileWordCounts, files) ==
    [k \in (DOMAIN fileWordCounts) \cap Range(files) |-> fileWordCounts[k]]

\* a variant that recounts every file
needsBaselineAlways(fileWordCounts, path) == TRUE

\* line 108: whether the loop reads this file
needsBaseline(fileWordCounts, path) == ~Has(fileWordCounts, path)

\* lines 107-108: the next file the loop reads, from index from on; 0 if none
NextMissing(fileWordCounts, files, from) ==
    LET hits == {i \in from..Len(files) : needsBaseline(fileWordCounts, files[i])}
    IN IF hits = {} THEN 0 ELSE CHOOSE i \in hits : \A j \in hits : i <= j

\* a variant that saves whether or not an entry changed
SyncResumeAlwaysSaves(p, d, from, changed) ==
    LET i == NextMissing(d.fileWordCounts, p.files, from)
    IN  IF i # 0
        THEN [p EXCEPT !.pc = "read", !.i = i, !.hasChanges = changed]
        ELSE [p EXCEPT !.pc = "write", !.i = 0, !.hasChanges = changed,
                       !.payload = JSONStringify(d)]

\* a variant that leaves the changes to the next save
SyncResumeNeverSaves(p, d, from, changed) ==
    LET i == NextMissing(d.fileWordCounts, p.files, from)
    IN  IF i # 0
        THEN [p EXCEPT !.pc = "read", !.i = i, !.hasChanges = changed]
        ELSE [p EXCEPT !.pc = "end", !.i = 0, !.hasChanges = changed]

\* lines 107-126: run the loop from index from until the next await
SyncResume(p, d, from, changed) ==
    LET i == NextMissing(d.fileWordCounts, p.files, from)
    IN  IF i # 0
        THEN [p EXCEPT !.pc = "read", !.i = i, !.hasChanges = changed]
        ELSE IF changed
        THEN [p EXCEPT !.pc = "write", !.i = 0, !.hasChanges = changed,
                       !.payload = JSONStringify(d)]
        ELSE [p EXCEPT !.pc = "end", !.i = 0, !.hasChanges = changed]

\* a variant that credits the words of a first-seen document to today
seedBaselineCredited(d, path, count) ==
    [dailyCounts |-> Put(d.dailyCounts, getTodayString,
                         GetOr0(d.dailyCounts, getTodayString) + count),
     fileWordCounts |-> Put(d.fileWordCounts, path, count)]

\* lines 111-113: the baseline of a first-seen document
seedBaseline(d, path, count) ==
    [d EXCEPT !.fileWordCounts = Put(@, path, count)]

\* a variant in which a failed read ends the pass
onReadErrorAbort(p, d) == [p EXCEPT !.pc = "end", !.i = 0]

\* lines 115-117: the catch logs, and the loop goes on with the next file
onReadError(p, d) == SyncResume(p, d, p.i + 1, p.hasChanges)

RemoveAt(seq, k) ==
    [j \in 1..(Len(seq) - 1) |-> IF j < k THEN seq[j] ELSE seq[j + 1]]

\* scheduleSyncFileCounts() is called, by the continuation of
\* waitForWorkspaceReady (lines 56-63, 255-264).  The method is written to
\* be triggered again (lines 66-69): the host may trigger it more than once.
ScheduleSyncFileCounts ==
    /\ scheduled /\ layoutReady
    /\ ops < MaxOps
    /\ ops' = ops + 1
    /\ IF syncInFlight
       THEN UNCHANGED <<data, syncPromise, passes>>
       ELSE \E live \in SUBSET MdPaths :
            LET files == getMarkdownFiles(live)
                pruned == pruneDeleted(data.fileWordCounts, files)
                d == [data EXCEPT !.fileWordCounts = pruned]
                p == [pc |-> "new", files |-> files, i |-> 0, hasChanges |-> FALSE,
                      content |-> Null, payload |-> NoFile,
                      start |-> data, quiet |-> TRUE, readsOk |-> TRUE,
                      seeded |-> EmptyMap, failed |-> {}, saved |-> FALSE,
                      thrown |-> FALSE]
            IN  /\ data' = d
                /\ syncPromise' = TRUE
                /\ passes' = Append(passes,
                                 SyncResume(p, d, 1, pruned # data.fileWordCounts))
    /\ last' = [op |-> "scheduleSyncFileCounts", running |-> syncPromise,
                after |-> last]
    /\ UNCHANGED <<pluginSettings, vault, exported, initialized, calls, load, scheduled, layoutReady, disk, pluginData, clock>>

\* vault.cachedRead(file) reads the document, or fails (line 110)
SyncRead(k) ==
    /\ passes[k].pc = "read"
    /\ \E r \in ReadResults :
         passes' = [passes EXCEPT ![k] =
             [@ EXCEPT !.pc = "cont", !.content = r,
                       !.readsOk = @ /\ r.ok,
                       !.failed = IF r.ok THEN @ ELSE @ \cup {passes[k].files[passes[k].i]}]]
    /\ last' = Other
    /\ UNCHANGED <<pluginSettings, vault, exported, data, initialized, syncPromise, calls, load, scheduled,
                   layoutReady, ops, disk, pluginData, clock>>

\* lines 111-119, then the loop goes on
SyncCont(k) ==
    /\ passes[k].pc = "cont"
    /\ LET p == passes[k]
           path == p.files[p.i]
       IN  IF p.content.ok
           THEN \E d \in {seedBaseline(data, path, countWords(p.content.text))} :
                    /\ data' = d
                    /\ passes' = [passes EXCEPT ![k] =
                          SyncResume([p EXCEPT !.content = Null,
                                               !.seeded = Put(@, path, p.content.text)],
                                     d, p.i + 1, TRUE)]
           ELSE /\ data' = data
                /\ passes' = [passes EXCEPT ![k] =
                      onReadError([p EXCEPT !.content = Null], data)]
    /\ last' = Other
    /\ UNCHANGED <<pluginSettings, vault, exported, initialized, syncPromise, calls, load, scheduled,
                   layoutReady, ops, disk, pluginData, clock>>

\* saveData has returned in syncFileCounts (line 122)
SyncSaveDone(k) ==
    /\ passes[k].pc = "write"
    /\ \E ok \in BOOLEAN :
         disk' = writeExternalData(disk, passes[k].payload, ok).disk
    /\ passes' = [passes EXCEPT ![k] =
                      [@ EXCEPT !.pc = "end", !.payload = NoFile, !.saved = TRUE]]
    /\ last' = afterSyncSave
    /\ UNCHANGED <<pluginSettings, vault, exported, data, initialized, syncPromise, calls, load, scheduled,
                   layoutReady, ops, pluginData, clock>>

\* a variant that clears the flag after the await of line 74, inside the
\* try block
finallySyncPromiseInTry(p) == p.thrown

\* lines 78-80: finally { this.syncPromise = null }, whether syncFileCounts
\* returned or threw
finallySyncPromise(p) == FALSE

\* lines 73-80: syncFileCounts has returned or thrown; the catch logs the
\* error, and finally
SyncEnd(k) ==
    /\ passes[k].pc = "end"
    /\ syncPromise' = finallySyncPromise(passes[k])
    /\ passes' = RemoveAt(passes, k)
    /\ last' = [op |-> "syncFileCounts returned", files |-> passes[k].files,
                quiet |-> passes[k].quiet, readsOk |-> passes[k].readsOk,
                thrown |-> passes[k].thrown]
    /\ UNCHANGED <<pluginSettings, vault, exported, data, initialized, calls, load, scheduled, layoutReady,
                   ops, disk, pluginData, clock>>

(***************************************************************************)
(* The host: the workspace becomes ready, the day changes.  The vault is   *)
(* the user's: between two steps of the tracker any document may have been *)
(* created, rewritten or deleted, so that the list of markdown files is    *)
(* any subset of MdPaths and a read settles with any of ReadResults.       *)
(***************************************************************************)
\* workspace.onLayoutReady fires (lines 257-263)
LayoutReady ==
    /\ ~layoutReady
    /\ layoutReady' = TRUE
    /\ last' = Other
    /\ UNCHANGED <<pluginSettings, vault, exported, data, initialized, syncPromise, passes, calls, load,
                   scheduled, ops, disk, pluginData, clock>>

\* midnight
Tick ==
    /\ clock < MaxTicks
    /\ clock' = clock + 1
    /\ last' = Other
    /\ UNCHANGED <<pluginSettings, vault, exported, data, initialized, syncPromise, passes, calls, load,
                   scheduled, layoutReady, ops, disk, pluginData>>

(***************************************************************************)
(* The specification.                                                      *)
(***************************************************************************)
\* what the adapter and data.json hold when the plugin is loaded
Storages ==
    { [current |-> NoFile, legacy |-> NoFile, plugin |-> Null],
      [current |-> JSONStringify(SavedData), legacy |-> NoFile, plugin |-> Null] }

\* the state after the constructor (lines 26-36)
Init ==
    /\ data = EmptyData
    /\ initialized = FALSE
    /\ syncPromise = FALSE
    /\ passes = <<>>
    /\ calls = EmptyBag
    /\ load = "new"
    /\ scheduled = FALSE
    /\ layoutReady = FALSE
    /\ ops = 0
    /\ \E st \in Storages :
         /\ disk = [current |-> st.current, legacy |-> st.legacy]
         /\ pluginData = st.plugin
    /\ clock = 0
    /\ exported = Null
    /\ pluginSettings = DEFAULT_SETTINGS
    /\ vault = Null
    /\ last = Other

Next ==
    \/ LoadCall
    \/ LoadStore
    \/ LoadPlugin
    \/ \E file \in Files : UpdateWordCount(file)
    \/ \E c \in BagToSet(calls) : UpdateRead(c)
    \/ \E c \in BagToSet(calls) : UpdateApply(c)
    \/ ResetToday
    \/ \E c \in BagToSet(calls) : SaveDone(c)
    \/ ScheduleSyncFileCounts
    \/ \E k \in DOMAIN passes : SyncRead(k)
    \/ \E k \in DOMAIN passes : SyncCont(k)
    \/ \E k \in DOMAIN passes : SyncSaveDone(k)
    \/ \E k \in DOMAIN passes : SyncEnd(k)
    \/ LayoutReady
    \/ Tick

Spec == Init /\ [][Next]_vars

(***************************************************************************)
(* The specification of the store: the tracker is loaded from each kind of *)
(* files the adapter and data.json can hold, and then updated and reset    *)
(* (no reconciliation pass).                                               *)
(***************************************************************************)
\* a payload of the legacy file: the daily counts only
LegacyPayload ==
    [dailyCounts |-> Put(EmptyMap, formatLocalDate(PreviousDate), 1)]

\* data.json as saveSettings writes it (main.ts): the settings, spread
\* with the data of the tracker
PluginWithCounts ==
    [level1Threshold |-> 100,
     dailyCounts |-> Put(EmptyMap, formatLocalDate(PreviousDate), 3),
     fileWordCounts |-> Put(EmptyMap, "a.md", 3)]

\* data.json with the settings only
PluginSettingsOnly == [level1Threshold |-> 100]

StoreStorages ==
    { [current |-> NoFile, legacy |-> NoFile, plugin |-> Null],
      [current |-> NoFile, legacy |-> NoFile, plugin |-> PluginSettingsOnly],
      [current |-> NoFile, legacy |-> NoFile, plugin |-> PluginWithCounts],
      [current |-> JSONStringify(SavedData), legacy |-> NoFile, plugin |-> Null],
      [current |-> JSONStringify(SavedData), legacy |-> JSONStringify(LegacyPayload),
       plugin |-> PluginWithCounts],
      [current |-> NoFile, legacy |-> JSONStringify(LegacyPayload), plugin |-> Null],
      [current |-> NoFile, legacy |-> EmptyFile, plugin |-> PluginSettingsOnly],
      [current |-> MalformedFile, legacy |-> NoFile, plugin |-> PluginWithCounts],
      [current |-> NoFile, legacy |-> MalformedFile, plugin |-> Null],
      [current |-> JSONStringify(SavedData), legacy |-> MalformedFile,
       plugin |-> Null],
      [current |-> MalformedFile, legacy |-> JSONStringify(LegacyPayload),
       plugin |-> Null] }

InitStore ==
    /\ data = EmptyData
    /\ initialized = FALSE
    /\ syncPromise = FALSE
    /\ passes = <<>>
    /\ calls = EmptyBag
    /\ load = "new"
    /\ scheduled = FALSE
    /\ layoutReady = FALSE
    /\ ops = 0
    /\ \E st \in StoreStorages :
         /\ disk = [current |-> st.current, legacy |-> st.legacy]
         /\ pluginData = st.plugin
    /\ clock = 0
    /\ exported = Null
    /\ pluginSettings = DEFAULT_SETTINGS
    /\ vault = Null
    /\ last = Other

NextStore ==
    \/ LoadCall
    \/ LoadStore
    \/ LoadPlugin
    \/ \E file \in Files : UpdateWordCount(file)
    \/ \E c \in BagToSet(calls) : UpdateRead(c)
    \/ \E c \in BagToSet(calls) : UpdateApply(c)
    \/ ResetToday
    \/ \E c \in BagToSet(calls) : SaveDone(c)

SpecStore == InitStore /\ [][NextStore]_vars

(***************************************************************************)
(* The read operations of the tracker (getRecentData, exportData,          *)
(* getLevel) and the statistics of the view (getYearStats).                *)
(***************************************************************************)
\* new Date(), to the day
Today == AddDays(StartDate, clock)

\* the number of a day, counted from 1970-01-01 (what the time value of a
\* Date holds, to the day)
DayNumber(date) ==
    LET y == IF date.month <= 2 THEN date.year - 1 ELSE date.year
        era == y \div 400
        yoe == y - era * 400
        mp == (date.month + 9) % 12
        doy == (153 * mp + 2) \div 5 + date.day - 1
        doe == yoe * 365 + yoe \div 4 - yoe \div 100 + doy
    IN  era * 146097 + doe - 719468

\* the date of the day of number n
DateOfDayNumber(n) ==
    LET z == n + 719468
        era == z \div 146097
        doe == z - era * 146097
        yoe == (doe - doe \div 1460 + doe \div 36524 - doe \div 146096) \div 365
        doy == doe - (365 * yoe + yoe \div 4 - yoe \div 100)
        mp == (5 * doy + 2) \div 153
        m == IF mp < 10 THEN mp + 3 ELSE mp - 9
    IN  [year |-> yoe + era * 400 + (IF m <= 2 THEN 1 ELSE 0),
         month |-> m,
         day |-> doy - (153 * mp + 2) \div 5 + 1]

\* date.setDate(date.getDate() - i): the date i days before (after, for a
\* negative i)
SubDays(date, i) == DateOfDayNumber(DayNumber(date) - i)

\* a variant that keeps the recorded days only
getRecentDataRecorded(days) ==
    LET keys == {formatLocalDate(SubDays(Today, i)) : i \in 0..(days - 1)}
    IN  [k \in keys \cap DOMAIN data.dailyCounts |-> data.dailyCounts[k]]

\* getRecentData(days) (lines 192-204): for i = 0 .. days - 1,
\* result[dateStr] = this.data.dailyCounts[dateStr] || 0
getRecentData(days) ==
    LET keys == {formatLocalDate(SubDays(Today, i)) : i \in 0..(days - 1)}
    IN  [k \in keys |-> GetOr0(data.dailyCounts, k)]

\* Object.values(dailyCounts).reduce((a, b) => a + b, 0)
RECURSIVE SumValues(_)
SumValues(m) ==
    IF DOMAIN m = {} THEN 0
    ELSE LET k == CHOOSE x \in DOMAIN m : TRUE
         IN  m[k] + SumValues(Del(m, k))

\* a mapping a summary holds: the mapping of the tracker itself (the object
\* this.data.dailyCounts, which no step replaces once loadData has
\* returned), or a mapping of its own
TrackerMapping == [alias |-> TRUE]

\* what the holder of a summary reads in its mapping
MappingOf(ref) == IF ref.alias THEN data.dailyCounts ELSE ref.value

\* a variant that counts the days that have words
exportDataActiveDays ==
    [exportDate |-> Today,
     dailyCounts |-> TrackerMapping,
     totalDays |-> Cardinality({k \in DOMAIN data.dailyCounts :
                                   data.dailyCounts[k] > 0}),
     totalWords |-> SumValues(data.dailyCounts)]

\* exportData() (lines 217-224); exportDate is the instant, kept to the day
exportData ==
    [exportDate |-> Today,
     dailyCounts |-> TrackerMapping,
     totalDays |-> Cardinality(DOMAIN data.dailyCounts),
     totalWords |-> SumValues(data.dailyCounts)]

\* a variant whose buckets include their upper bound
getLevelInclusive(count, settings) ==
    IF count = 0 THEN 0
    ELSE IF count <= settings.level1Threshold THEN 1
    ELSE IF count <= settings.level2Threshold THEN 2
    ELSE IF count <= settings.level3Threshold THEN 3
    ELSE 4

\* getLevel(count) (lines 227-234), settings being this.plugin.settings
getLevel(count, settings) ==
    IF count = 0 THEN 0
    ELSE IF count < settings.level1Threshold THEN 1
    ELSE IF count < settings.level2Threshold THEN 2
    ELSE IF count < settings.level3Threshold THEN 3
    ELSE 4

\* toLocalDateStr(date) (heatmapView.ts): the local date as YYYY-MM-DD
toLocalDateStr(date) ==
    <<date.year, padToTwoDigits(date.month), padToTwoDigits(date.day)>>

\* iterDate <= today, both at the precision of a day
DateLE(a, b) ==
    \/ a.year < b.year
    \/ a.year = b.year /\ a.month < b.month
    \/ a.year = b.year /\ a.month = b.month /\ a.day <= b.day

\* getYearStats, the first loop: from checkDate backwards while the date is
\* in the year and data[dateStr] && data[dateStr] > 0
RECURSIVE currentStreakFrom(_, _, _)
currentStreakFrom(checkDate, year, view) ==
    IF checkDate.year = year /\ GetOr0(view, toLocalDateStr(checkDate)) > 0
    THEN 1 + currentStreakFrom(SubDays(checkDate, 1), year, view)
    ELSE 0

\* getYearStats, the second loop: the dates of the year up to today
RECURSIVE yearDates(_, _, _)
yearDates(iterDate, year, today) ==
    IF DateLE(iterDate, today) /\ iterDate.year = year
    THEN <<toLocalDateStr(iterDate)>> \o yearDates(SubDays(iterDate, -1), year, today)
    ELSE <<>>

\* a variant that never restarts the run
yearStatsStepNoRestart(acc, count) ==
    IF count > 0
    THEN [totalWords |-> acc.totalWords + count,
          activeDays |-> acc.activeDays + 1,
          tempStreak |-> acc.tempStreak + 1,
          longestStreak |-> IF acc.tempStreak + 1 > acc.longestStreak
                            THEN acc.tempStreak + 1 ELSE acc.longestStreak]
    ELSE acc

\* getYearStats, the body of the forEach, count being data[dateStr] || 0
yearStatsStep(acc, count) ==
    IF count > 0
    THEN [totalWords |-> acc.totalWords + count,
          activeDays |-> acc.activeDays + 1,
          tempStreak |-> acc.tempStreak + 1,
          longestStreak |-> IF acc.tempStreak + 1 > acc.longestStreak
                            THEN acc.tempStreak + 1 ELSE acc.longestStreak]
    ELSE [acc EXCEPT !.tempStreak = 0]

RECURSIVE forEachDate(_, _, _, _)
forEachDate(dates, i, view, acc) ==
    IF i > Len(dates) THEN acc
    ELSE forEachDate(dates, i + 1, view, yearStatsStep(acc, GetOr0(view, dates[i])))

\* getYearStats(year, data) (heatmapView.ts), today being new Date()
getYearStats(year, view, today) ==
    LET startOfYear == [year |-> year, month |-> 1, day |-> 1]
        acc == forEachDate(yearDates(startOfYear, year, today), 1, view,
                           [totalWords |-> 0, activeDays |-> 0,
                            tempStreak |-> 0, longestStreak |-> 0])
    IN  [totalWords |-> acc.totalWords,
         activeDays |-> acc.activeDays,
         currentStreak |-> currentStreakFrom(today, year, view),
         longestStreak |-> acc.longestStreak]

\* the days the view asks getRecentData for
RecentDays == 400

(***************************************************************************)
(* The specification of the read operations: the tracker has been loaded   *)
(* with the totals of some days, on one of the days around a new year; the *)
(* host reads it (getLevel, getRecentData, exportData, the rendering of    *)
(* the view) and counts texts, and the user resets the total of today.     *)
(***************************************************************************)
\* the days on which the tracker is read: the ViewDays days after StartDate
ViewDays == 3

\* the totals of a history: history[i] is the total of the day i - 1 days
\* before today, and -1 stands for a day that has no entry
HistoryTotals(history, today) ==
    LET recorded == {i \in 1..Len(history) : history[i] >= 0}
        keyOf(i) == formatLocalDate(SubDays(today, i - 1))
    IN  [k \in {keyOf(i) : i \in recorded} |->
            history[CHOOSE i \in recorded : keyOf(i) = k]]

\* the histories the tracker is loaded with
Histories ==
    { <<>>, <<3>>, <<0, 2>>, <<-1, 2>>, <<1, 3, 2, 1>>, <<2, 0, 3, 4>>,
      <<-1, -1, 5, 5, 5>>, <<2, 2, -1, 2, 2, 2>> }

\* the threshold settings: the defaults, the least ascending ones, and an
\* order the settings tab accepts although it is not ascending
ThresholdSettings ==
    { DEFAULT_SETTINGS,
      [level1Threshold |-> 1, level2Threshold |-> 2,
       level3Threshold |-> 3, maxThreshold |-> 4],
      [level1Threshold |-> 300, level2Threshold |-> 100,
       level3Threshold |-> 600, maxThreshold |-> 1000] }

\* the counts at and next to the thresholds of settings, and 0
BoundaryCounts(settings) ==
    {0} \cup UNION {{t - 1, t, t + 1} :
                       t \in {settings.level1Threshold, settings.level2Threshold,
                              settings.level3Threshold, settings.maxThreshold}}

\* "```code\nhello\n```plain"
TextFencePlain ==
    <<96, 96, 96, 99, 111, 100, 101, 10, 104, 101, 108, 108, 111, 10,
      96, 96, 96, 112, 108, 97, 105, 110>>
\* "你好 world"
TextCJKWorld == <<20320, 22909, 32, 119, 111, 114, 108, 100>>
\* "[a b](h t) c"
TextLink == <<91, 97, 32, 98, 93, 40, 104, 32, 116, 41, 32, 99>>

\* the texts countWords is applied to
CountTexts ==
    {TextEmpty, TextHeading, TextMixed, TextFencePlain, TextCJKWorld, TextLink}

InitView ==
    /\ clock \in 1..ViewDays
    /\ \E history \in Histories :
         data = [dailyCounts |-> HistoryTotals(history, Today),
                 fileWordCounts |-> SavedData.fileWordCounts]
    /\ initialized = TRUE
    /\ syncPromise = FALSE
    /\ passes = <<>>
    /\ calls = EmptyBag
    /\ load = "done"
    /\ scheduled = TRUE
    /\ layoutReady = TRUE
    /\ ops = 0
    /\ disk = [current |-> JSONStringify(data), legacy |-> NoFile]
    /\ pluginData = Null
    /\ exported = Null
    /\ pluginSettings = DEFAULT_SETTINGS
    /\ vault = Null
    /\ last = Other

\* getLevel(count) is called, with the settings of the moment
GetLevel ==
    /\ ops < MaxOps
    /\ ops' = ops + 1
    /\ \E settings \in ThresholdSettings :
         \E count \in BoundaryCounts(settings) :
            last' = [op |-> "getLevel", count |-> count, settings |-> settings,
                     result |-> getLevel(count, settings)]
    /\ UNCHANGED <<pluginSettings, vault, data, initialized, syncPromise, passes, calls, load,
                   scheduled, layoutReady, disk, pluginData, clock,
                   exported>>

\* getRecentData(days) is called
GetRecentData ==
    /\ ops < MaxOps
    /\ ops' = ops + 1
    /\ \E days \in 1..(ViewDays + 2) :
         last' = [op |-> "getRecentData", days |-> days,
                  result |-> getRecentData(days)]
    /\ UNCHANGED <<pluginSettings, vault, data, initialized, syncPromise, passes, calls, load,
                   scheduled, layoutReady, disk, pluginData, clock,
                   exported>>

\* exportData() is called; its caller holds the summary (atExport keeps, as
\* history, the mapping of the tracker at the call)
ExportData ==
    /\ ops < MaxOps
    /\ ops' = ops + 1
    /\ exported' = [summary |-> exportData, atExport |-> data.dailyCounts]
    /\ last' = [op |-> "exportData", result |-> exportData]
    /\ UNCHANGED <<pluginSettings, vault, data, initialized, syncPromise, passes, calls, load,
                   scheduled, layoutReady, disk, pluginData, clock>>

\* HeatmapView.render(): the year, today's count, the data of the last
\* RecentDays days and the statistics of the year
Render ==
    /\ ops < MaxOps
    /\ ops' = ops + 1
    /\ last' = [op |-> "render", year |-> Today.year,
                todayCount |-> getTodayCount,
                stats |-> getYearStats(Today.year, getRecentData(RecentDays), Today)]
    /\ UNCHANGED <<pluginSettings, vault, data, initialized, syncPromise, passes, calls, load,
                   scheduled, layoutReady, disk, pluginData, clock,
                   exported>>

\* countWords(text) is called
CountWords ==
    /\ ops < MaxOps
    /\ ops' = ops + 1
    /\ \E text \in CountTexts :
         last' = [op |-> "countWords", text |-> text, result |-> countWords(text)]
    /\ UNCHANGED <<pluginSettings, vault, data, initialized, syncPromise, passes, calls, load,
                   scheduled, layoutReady, disk, pluginData, clock,
                   exported>>

\* a payload that holds the baselines only
BaselinesOnly == [fileWordCounts |-> Put(EmptyMap, "a.md", 3)]

\* what normalizeData is given: null, {}, payloads that lack a field,
\* payloads that have both (data.json has the settings as well), and the
\* data of the tracker
Payloads ==
    {Null, EmptyMap, LegacyPayload, BaselinesOnly, SavedData, PluginWithCounts}

\* normalizeData(source) is called
NormalizeData ==
    /\ ops < MaxOps
    /\ ops' = ops + 1
    /\ \E source \in Payloads \cup {data} :
         last' = [op |-> "normalizeData", source |-> source,
                  result |-> normalizeData(source)]
    /\ UNCHANGED <<pluginSettings, vault, data, initialized, syncPromise, passes, calls, load,
                   scheduled, layoutReady, disk, pluginData, clock,
                   exported>>

NextView ==
    \/ GetLevel
    \/ GetRecentData
    \/ ExportData
    \/ Render
    \/ CountWords
    \/ NormalizeData
    \/ ResetToday
    \/ \E c \in BagToSet(calls) : SaveDone(c)

SpecView == InitView /\ [][NextView]_vars

(***************************************************************************)
(* The specification of the passes alone: a loaded tracker whose pass is   *)
(* triggered, and whose syncFileCounts may throw.  Every await of a pass   *)
(* settles and every continuation is run (weak fairness): the host's       *)
(* promises settle, and the job queue runs what is ready.                  *)
(***************************************************************************)
\* scheduleSyncFileCounts() is called and syncFileCounts throws before its
\* first await (getMarkdownFiles, line 91, is outside every try of the
\* method): the await of line 74 suspends the wrapper, which has set
\* syncPromise (line 71), and the catch and finally run in a later job
ScheduleSyncFileCountsThrows ==
    /\ scheduled /\ layoutReady
    /\ ops < MaxOps
    /\ ~syncInFlight
    /\ ops' = ops + 1
    /\ syncPromise' = TRUE
    /\ passes' = Append(passes,
                   [pc |-> "end", files |-> <<>>, i |-> 0, hasChanges |-> FALSE,
                    content |-> Null, payload |-> NoFile,
                    start |-> data, quiet |-> TRUE, readsOk |-> TRUE,
                    seeded |-> EmptyMap, failed |-> {}, saved |-> FALSE,
                    thrown |-> TRUE])
    /\ last' = [op |-> "scheduleSyncFileCounts", running |-> syncPromise,
                after |-> last]
    /\ UNCHANGED <<pluginSettings, vault, exported, data, initialized, calls,
                   load, scheduled, layoutReady, disk, pluginData, clock>>

\* loadData has returned with the saved state, or with none
InitSync ==
    /\ \E st \in Storages :
         /\ disk = [current |-> st.current, legacy |-> st.legacy]
         /\ pluginData = st.plugin
         /\ data = IF st.current = NoFile THEN EmptyData ELSE SavedData
    /\ initialized = TRUE
    /\ syncPromise = FALSE
    /\ passes = <<>>
    /\ calls = EmptyBag
    /\ load = "done"
    /\ scheduled = TRUE
    /\ layoutReady = FALSE
    /\ ops = 0
    /\ clock = 0
    /\ exported = Null
    /\ pluginSettings = DEFAULT_SETTINGS
    /\ vault = Null
    /\ last = Other

NextSync ==
    \/ LayoutReady
    \/ ScheduleSyncFileCounts
    \/ ScheduleSyncFileCountsThrows
    \/ \E k \in DOMAIN passes : SyncRead(k)
    \/ \E k \in DOMAIN passes : SyncCont(k)
    \/ \E k \in DOMAIN passes : SyncSaveDone(k)
    \/ \E k \in DOMAIN passes : SyncEnd(k)

SpecSync ==
    /\ InitSync
    /\ [][NextSync]_vars
    /\ WF_vars(\E k \in DOMAIN passes : SyncRead(k))
    /\ WF_vars(\E k \in DOMAIN passes : SyncCont(k))
    /\ WF_vars(\E k \in DOMAIN passes : SyncSaveDone(k))
    /\ WF_vars(\E k \in DOMAIN passes : SyncEnd(k))

(***************************************************************************)
(* The specification of the edits: a loaded tracker and a vault whose      *)
(* documents the user rewrites.  vault gives, for each markdown document,  *)
(* its text and the number of times it was rewritten (rev).  Each rewrite  *)
(* fires the modify handler, which calls updateWordCount; vault.read gives *)
(* the text the document has when the read is done, and the continuation   *)
(* of the call runs when the host delivers it.  Reads and writes succeed.  *)
(***************************************************************************)
\* the texts a document is rewritten to
EditTexts == {TextEmpty, TextHeading, TextMixed}

\* the user saves the document with a new text: the modify handler calls
\* updateWordCount(file) (heatmapView.ts, lines 571-577)
Modify(path, text) ==
    /\ load = "done"
    /\ ops < MaxOps
    /\ InFlight < MaxCalls
    /\ ops' = ops + 1
    /\ vault' = [vault EXCEPT ![path] = [text |-> text, rev |-> @.rev + 1]]
    /\ IF accepts([path |-> path, extension |-> "md"])
       THEN calls' = calls (+) One([kind |-> "update", pc |-> "read",
                                    path |-> path])
       ELSE UNCHANGED calls
    /\ last' = [op |-> "updateWordCount", initialized |-> initialized,
                extension |-> "md"]
    /\ UNCHANGED <<pluginSettings, exported, data, initialized, syncPromise,
                   passes, load, scheduled, layoutReady, disk, pluginData,
                   clock>>

\* vault.read(file) reads the document (line 162)
VaultRead(c) ==
    /\ c.kind = "update" /\ c.pc = "read"
    /\ calls' = (calls (-) One(c)) (+)
                One([kind |-> "update", pc |-> "cont", path |-> c.path,
                     content |-> vault[c.path].text])
    /\ last' = Other
    /\ UNCHANGED <<pluginSettings, vault, exported, data, initialized,
                   syncPromise, passes, load, scheduled, layoutReady, ops,
                   disk, pluginData, clock>>

\* saveData has returned in updateWordCount or resetToday, its write having
\* succeeded
SaveWritten(c) == SaveSettles(c, TRUE)

\* loadData has returned with the saved state; each document holds one word
InitEdits ==
    /\ data = SavedData
    /\ initialized = TRUE
    /\ syncPromise = FALSE
    /\ passes = <<>>
    /\ calls = EmptyBag
    /\ load = "done"
    /\ scheduled = TRUE
    /\ layoutReady = TRUE
    /\ ops = 0
    /\ disk = [current |-> JSONStringify(SavedData), legacy |-> NoFile]
    /\ pluginData = Null
    /\ clock = 0
    /\ exported = Null
    /\ pluginSettings = DEFAULT_SETTINGS
    /\ vault = [path \in MdPaths |-> [text |-> TextHeading, rev |-> 0]]
    /\ last = Other

NextEdits ==
    \/ \E path \in MdPaths : \E text \in EditTexts : Modify(path, text)
    \/ \E c \in BagToSet(calls) : VaultRead(c)
    \/ \E c \in BagToSet(calls) : UpdateApply(c)
    \/ ResetToday
    \/ \E c \in BagToSet(calls) : SaveWritten(c)

SpecEdits == InitEdits /\ [][NextEdits]_vars

(***************************************************************************)
(* The threshold inputs of the settings tab (settings.ts, display): each   *)
(* of the four has the same onChange handler.                              *)
(***************************************************************************)
\* a number of the script: NaN, or an integer
NaN == [nan |-> TRUE, int |-> 0]

Number(n) == [nan |-> FALSE, int |-> n]

\* the code units of the digits 0..9
IsDigit(c) == c >= 48 /\ c <= 57

\* the value of a sequence of digits
RECURSIVE DigitsValue(_)
DigitsValue(ds) ==
    IF ds = <<>> THEN 0
    ELSE DigitsValue(SubSeq(ds, 1, Len(ds) - 1)) * 10 + (ds[Len(ds)] - 48)

\* parseInt(value) for a decimal text: leading white space, a sign, then
\* the longest run of digits; NaN if there is no digit
parseInt(value) ==
    LET t == TrimLeft(value)
        signed == t # <<>> /\ t[1] \in {43, 45}
        body == IF signed THEN Tail(t) ELSE t
        stops == {i \in 1..Len(body) : ~IsDigit(body[i])}
        n == IF stops = {} THEN Len(body)
             ELSE (CHOOSE i \in stops : \A j \in stops : i <= j) - 1
        magnitude == DigitsValue(SubSeq(body, 1, n))
    IN  IF n = 0 THEN NaN
        ELSE IF signed /\ t[1] = 45 THEN Number(0 - magnitude)
        ELSE Number(magnitude)

\* `!isNaN(num) && num > 0`: the edit is accepted
isNaN(num) == num.nan

acceptsThreshold(num) == ~isNaN(num) /\ num.int > 0

\* the four threshold settings
ThresholdNames ==
    {"level1Threshold", "level2Threshold", "level3Threshold", "maxThreshold"}

\* the texts typed into an input: "", "x", "0", "-5", "50", "500", "2000"
InputTexts ==
    { <<>>, <<120>>, <<48>>, <<45, 53>>, <<53, 48>>, <<53, 48, 48>>,
      <<50, 48, 48, 48>> }

\* saveSettings(): data.json gets the settings spread with the
\* data of the tracker
saveSettings(s, d) ==
    [n \in DOMAIN s \cup DOMAIN d |-> IF n \in DOMAIN d THEN d[n] ELSE s[n]]

\* the onChange handler of the input of the setting name, given value
OnThresholdChange(name, value) ==
    /\ load = "done"
    /\ LET num == parseInt(value)
       IN  IF acceptsThreshold(num)
           THEN /\ pluginSettings' = [pluginSettings EXCEPT ![name] = num.int]
                /\ pluginData' = saveSettings(pluginSettings', data)
           ELSE UNCHANGED <<pluginSettings, pluginData>>
    /\ last' = [op |-> "onChange", name |-> name, value |-> value]
    /\ UNCHANGED <<data, initialized, syncPromise, passes, calls, load,
                   scheduled, layoutReady, ops, disk, clock, exported, vault>>

\* the view asks getLevel for the level of a count, with the settings of
\* the moment
GetLevelOfSettings ==
    /\ load = "done"
    /\ \E count \in BoundaryCounts(pluginSettings) :
         last' = [op |-> "getLevel", count |-> count,
                  settings |-> pluginSettings,
                  result |-> getLevel(count, pluginSettings)]
    /\ UNCHANGED <<data, initialized, syncPromise, passes, calls, load,
                   scheduled, layoutReady, ops, disk, pluginData, clock,
                   exported, pluginSettings, vault>>

\* the plugin has been loaded with the default settings and a saved state
InitSettings ==
    /\ data = SavedData
    /\ initialized = TRUE
    /\ syncPromise = FALSE
    /\ passes = <<>>
    /\ calls = EmptyBag
    /\ load = "done"
    /\ scheduled = TRUE
    /\ layoutReady = TRUE
    /\ ops = 0
    /\ disk = [current |-> JSONStringify(SavedData), legacy |-> NoFile]
    /\ pluginData = Null
    /\ clock = 0
    /\ exported = Null
    /\ pluginSettings = DEFAULT_SETTINGS
    /\ vault = Null
    /\ last = Other

NextSettings ==
    \/ \E name \in ThresholdNames : \E value \in InputTexts :
          OnThresholdChange(name, value)
    \/ GetLevelOfSettings

SpecSettings == InitSettings /\ [][NextSettings]_vars

(***************************************************************************)
(* Properties.  DailyTotals is data.dailyCounts and DocumentSnapshot is    *)
(* data.fileWordCounts.                                                    *)
(***************************************************************************)
\* the call c leaves its position in this step
Leaves(c) == CopiesIn(c, calls') < CopiesIn(c, calls)

\* the call c is made in this step
Enters(c) == CopiesIn(c, calls') > CopiesIn(c, calls)

\* the total recorded for a day, 0 when nothing is recorded
TotalOf(totals, day) == IF Has(totals, day) THEN totals[day] ELSE 0

Days == DOMAIN data.dailyCounts \cup DOMAIN data'.dailyCounts

\* C1: when updateWordCount compares the count b of the content it read
\* with an existing baseline a of the document, today's total grows by
\* exactly b - a if b > a, no total changes if b <= a, and in both cases
\* the baseline of the document becomes b, the other baselines staying.
C1_UpdateAddsGrowthOnly ==
    [][\A c \in BagToSet(calls) :
          (c.pc = "cont" /\ Leaves(c) /\ Has(data.fileWordCounts, c.path)) =>
              LET a == data.fileWordCounts[c.path]
                  b == countWords(c.content)
                  grown == IF b > a THEN b - a ELSE 0
              IN  /\ data'.fileWordCounts = Put(data.fileWordCounts, c.path, b)
                  /\ \A day \in Days :
                        TotalOf(data'.dailyCounts, day) =
                            TotalOf(data.dailyCounts, day)
                            + (IF day = getTodayString THEN grown ELSE 0)
                  /\ b <= a => data'.dailyCounts = data.dailyCounts]_vars

\* an update has found a baseline below the count it read and is saving
C1_Witness ==
    \E c \in BagToSet(calls) :
        /\ c.kind = "update" /\ c.pc = "write"
        /\ c.lastCount # <<>> /\ c.currentCount > c.lastCount[1]
        /\ TotalOf(data.dailyCounts, getTodayString) > 0

\* C2: when updateWordCount finds no baseline for the document, it stores
\* the count of the content as the baseline and changes no daily total.
C2_FirstSightCreditsNothing ==
    [][\A c \in BagToSet(calls) :
          (c.pc = "cont" /\ Leaves(c) /\ ~Has(data.fileWordCounts, c.path)) =>
              /\ data'.fileWordCounts =
                     Put(data.fileWordCounts, c.path, countWords(c.content))
              /\ data'.dailyCounts = data.dailyCounts]_vars

\* an update has found no baseline for a document that has words
C2_Witness ==
    \E c \in BagToSet(calls) :
        /\ c.kind = "update" /\ c.pc = "write"
        /\ c.lastCount = <<>> /\ c.currentCount > 0
        /\ data.fileWordCounts[c.path] = c.currentCount

\* C3: in every reachable state every daily total is a natural number.
C3_TotalsNonNegative ==
    \A day \in DOMAIN data.dailyCounts : data.dailyCounts[day] \in Nat

\* an update has found the document shorter than its baseline, with a
\* total recorded for today
C3_Witness ==
    /\ Has(data.dailyCounts, getTodayString)
    /\ \E c \in BagToSet(calls) :
          /\ c.kind = "update" /\ c.pc = "write"
          /\ c.lastCount # <<>> /\ c.currentCount < c.lastCount[1]

\* resetToday() is called in this step
ResetStep == \E c \in BagToSet(calls') : c.kind = "reset" /\ Enters(c)

\* C4 as stated: no step of the tracker lowers or removes a daily total
\* that has been written, the steps of resetToday included.
C4_TotalsNeverDecrease ==
    [][\A day \in DOMAIN data.dailyCounts :
          /\ Has(data'.dailyCounts, day)
          /\ data'.dailyCounts[day] >= data.dailyCounts[day]]_vars

\* C4: no step of updateWordCount or of syncFileCounts lowers or removes a
\* daily total that has been written; the one step that lowers a total is
\* resetToday, which sets the total of today to 0 and leaves the others.
C4_OnlyResetLowersTotals ==
    [][\A day \in DOMAIN data.dailyCounts :
          /\ Has(data'.dailyCounts, day)
          /\ \/ data'.dailyCounts[day] >= data.dailyCounts[day]
             \/ /\ ResetStep
                /\ day = getTodayString
                /\ data'.dailyCounts[day] = 0]_vars

\* an update has found the document shorter than its baseline on a day
\* that has words recorded
C4_Witness ==
    /\ TotalOf(data.dailyCounts, getTodayString) > 0
    /\ \E c \in BagToSet(calls) :
          /\ c.kind = "update" /\ c.pc = "write"
          /\ c.lastCount # <<>> /\ c.currentCount < c.lastCount[1]

\* C5: a call of updateWordCount made before initialized is set, or for a
\* file whose extension is not 'md', starts no read and no save (no call is
\* in flight after it that was not before, so that nothing is written and
\* no 'heatmap-update' follows from it) and changes neither the data nor
\* the store.
C5_RejectedUpdateIsNoOp ==
    [][(/\ last'.op = "updateWordCount"
        /\ ~last'.initialized \/ last'.extension # "md")
       => UNCHANGED <<data, calls, disk, pluginData, passes, initialized,
                      syncPromise>>]_vars

\* the last step was a call of updateWordCount, after initialization, for
\* a file that is not markdown
C5_Witness ==
    /\ last.op = "updateWordCount"
    /\ last.initialized /\ last.extension # "md"
    /\ initialized

\* the entries that existed when the pass p started and whose documents
\* are in the list of the pass
KeptPaths(p) == DOMAIN p.start.fileWordCounts \cap Range(p.files)

\* the documents of the list of the pass p that had no entry at its start
FirstSeenPaths(p) == Range(p.files) \ DOMAIN p.start.fileWordCounts

\* C6: when syncFileCounts has returned, every cachedRead of the pass
\* having succeeded and no update or reset having changed the data since
\* the pass listed the documents, the keys of the baselines are exactly the
\* documents listed, and the baseline of each document that had none is the
\* count of the content the pass read.
C6_PassAlignsBaselinesWithVault ==
    \A k \in DOMAIN passes :
        LET p == passes[k]
        IN  (p.pc = "end" /\ p.quiet /\ p.readsOk) =>
                /\ DOMAIN data.fileWordCounts = Range(p.files)
                /\ \A path \in FirstSeenPaths(p) :
                      /\ Has(p.seeded, path)
                      /\ data.fileWordCounts[path] = countWords(p.seeded[path])

\* a pass has returned that removed an entry and seeded a document that
\* has words
C6_Witness ==
    \E k \in DOMAIN passes :
        LET p == passes[k]
        IN  /\ p.pc = "end" /\ p.quiet /\ p.readsOk
            /\ DOMAIN p.start.fileWordCounts \ Range(p.files) # {}
            /\ \E path \in FirstSeenPaths(p) : data.fileWordCounts[path] > 0

\* a step of a pass: the position of a pass changes, a pass starts or ends
PassStep ==
    [k \in DOMAIN passes |-> passes[k].pc] # [k \in DOMAIN passes' |-> passes'[k].pc]

\* C7: no step of a pass changes a daily total, and no step of a pass
\* changes or removes the baseline of a document that had one when the
\* pass started and is in the list of the pass.
C7_PassCreditsAndRecountsNothing ==
    [][PassStep =>
          /\ data'.dailyCounts = data.dailyCounts
          /\ \A k \in DOMAIN passes' :
                \A path \in KeptPaths(passes'[k]) :
                    /\ Has(data.fileWordCounts, path)
                    /\ Has(data'.fileWordCounts, path)
                    /\ data'.fileWordCounts[path] = data.fileWordCounts[path]]_vars

\* a pass has seeded a document that has words, next to a document that
\* had a baseline
C7_Witness ==
    \E k \in DOMAIN passes :
        LET p == passes[k]
        IN  /\ p.pc \in {"write", "end"}
            /\ KeptPaths(p) # {}
            /\ \E path \in DOMAIN p.seeded : countWords(p.seeded[path]) > 0

\* C8: at most one pass is in flight; a pass starts only in a call of
\* scheduleSyncFileCounts made while no pass is in flight; a call made
\* while a pass is in flight changes nothing of the tracker, so that no
\* pass is left to start later.
C8_SingleFlight ==
    [][/\ Len(passes) <= 1 /\ Len(passes') <= 1
       /\ Len(passes') > Len(passes) =>
              /\ last'.op = "scheduleSyncFileCounts"
              /\ ~last'.running
              /\ passes = <<>> /\ ~syncPromise
       /\ (last'.op = "scheduleSyncFileCounts" /\ last'.running) =>
              UNCHANGED <<data, passes, syncPromise, calls, disk, scheduled>>]_vars

\* the last step was a call of scheduleSyncFileCounts made while a pass
\* was in flight, and that pass is still the only one
C8_Witness ==
    /\ last.op = "scheduleSyncFileCounts" /\ last.running
    /\ Len(passes) = 1 /\ syncPromise

\* C9: once loadData has returned initialized is set, whether or not the
\* workspace is ready and with no pass started; a pass is in flight only
\* after initialized is set and the workspace is ready; a call of
\* updateWordCount for a markdown file made after loadData has returned
\* starts reading the file.
C9_InitializedBeforePass ==
    /\ load = "done" => initialized
    /\ (passes # <<>> \/ syncPromise) =>
           initialized /\ layoutReady /\ load = "done"
    /\ (last.op = "updateWordCount" /\ last.extension = "md" /\ load = "done") =>
           \E c \in BagToSet(calls) : c.kind = "update" /\ c.pc = "read"

\* loadData has returned, the workspace is not ready, no pass has started
\* and an update has been processed
C9_Witness ==
    /\ load = "done" /\ ~layoutReady
    /\ passes = <<>> /\ ~syncPromise
    /\ \E c \in BagToSet(calls) : c.kind = "update" /\ c.pc = "write"

\* C10: when syncFileCounts has returned and no update or reset has
\* changed the data since the pass started, the daily totals are those of
\* the start of the pass (what the updates before it added is there once),
\* and every baseline written before the pass for a document of the vault
\* is unchanged.
C10_PassKeepsEarlierEdits ==
    \A k \in DOMAIN passes :
        LET p == passes[k]
        IN  (p.pc = "end" /\ p.quiet) =>
                /\ data.dailyCounts = p.start.dailyCounts
                /\ \A path \in KeptPaths(p) :
                      /\ Has(data.fileWordCounts, path)
                      /\ data.fileWordCounts[path] = p.start.fileWordCounts[path]

\* a pass has returned that started after an update had added words to
\* today and written the baseline of a document of the vault
C10_Witness ==
    \E k \in DOMAIN passes :
        LET p == passes[k]
        IN  /\ p.pc = "end" /\ p.quiet
            /\ TotalOf(p.start.dailyCounts, getTodayString) > 0
            /\ \E path \in KeptPaths(p) :
                  p.start.fileWordCounts[path] = countWords(TextMixed)

\* the pass k takes a step
PassMoves(k) ==
    k \notin DOMAIN passes' \/ passes'[k].pc # passes[k].pc

\* C11 as stated: when a pass writes the baseline of a document, the check
\* of line 108 it made before the read still holds: the document has no
\* baseline (no other step has written the entry since the check).
C11_NoWriteAfterStaleCheck ==
    [][\A k \in DOMAIN passes :
          (passes[k].pc = "cont" /\ PassMoves(k) /\ passes[k].content.ok) =>
              needsBaseline(data.fileWordCounts, passes[k].files[passes[k].i])]_vars

\* the pass that has just started
NewPass == passes'[Len(passes')]

AllOk == [read |-> TRUE, write |-> TRUE, remove |-> TRUE]

\* readExternalData returns in this step
StoreRead == load = "store" /\ load' # "store"

\* C13: when only the legacy file exists, holds a payload JSON.parse
\* accepts, and every adapter call succeeds, readExternalData leaves no
\* legacy file and a current file that holds the normalized data, which is
\* the data of the tracker; a second readExternalData returns the same
\* data from the current file and changes no file.
C13_LegacyMigratesOnce ==
    [][(/\ StoreRead
        /\ disk.current = NoFile
        /\ disk.legacy \notin {NoFile, MalformedFile}
        /\ last'.io = AllOk)
       => /\ load' = "done"
          /\ data' = normalizeData(IF disk.legacy = EmptyFile THEN EmptyMap
                                   ELSE JSONParse(disk.legacy))
          /\ disk'.legacy = NoFile
          /\ disk'.current = JSONStringify(data')
          /\ LET second == readExternalData(disk', AllOk)
             IN  second.result = data' /\ second.disk = disk']_vars

\* the tracker has been loaded from a legacy file that held daily counts
\* and no baselines, and the file has been migrated
C13_Witness ==
    /\ load = "done"
    /\ last.op = "readExternalData" /\ last.io = AllOk
    /\ data = normalizeData(LegacyPayload)
    /\ disk.legacy = NoFile
    /\ disk.current = JSONStringify(data)

\* C14: in every reachable state, writing the data of the tracker with
\* writeExternalData and reading the files back with readExternalData
\* returns data equal to it in dailyCounts and in fileWordCounts.
C14_SaveLoadRoundTrip ==
    LET saved == writeExternalData(disk, JSONStringify(data), TRUE).disk
        loaded == readExternalData(saved, AllOk).result
    IN  /\ loaded # Null
        /\ loaded.dailyCounts = data.dailyCounts
        /\ loaded.fileWordCounts = data.fileWordCounts

\* the file holds the saved data of a tracker that has baselines and no
\* daily count
C14_Witness ==
    /\ load = "done"
    /\ data.dailyCounts = EmptyMap /\ data.fileWordCounts # EmptyMap
    /\ disk.current = JSONStringify(data)
    /\ readExternalData(disk, AllOk).result = data

\* loadData returns in this step (line 54)
LoadReturns == load # "done" /\ load' = "done"

\* C15 as stated: when neither file exists, the data after loadData is the
\* empty data.
C15_NotFoundStartsEmpty ==
    [][(LoadReturns /\ disk.current = NoFile /\ disk.legacy = NoFile)
       => data' = EmptyData]_vars

\* C15: when neither file exists, readExternalData returns null, and the
\* data after loadData is the counts of data.json if it holds dailyCounts
\* or fileWordCounts, and the empty data otherwise.
C15_NotFoundFallsBackToPluginData ==
    [][/\ (StoreRead /\ disk.current = NoFile /\ disk.legacy = NoFile)
           => load' = "plugin" /\ data' = EmptyData /\ ~initialized'
       /\ (LoadReturns /\ disk.current = NoFile /\ disk.legacy = NoFile)
           => /\ load = "plugin"
              /\ data' = IF pluginData # Null
                             /\ (\/ "dailyCounts" \in DOMAIN pluginData
                                 \/ "fileWordCounts" \in DOMAIN pluginData)
                          THEN [dailyCounts |-> pluginData.dailyCounts,
                                fileWordCounts |-> pluginData.fileWordCounts]
                          ELSE EmptyData]_vars

\* loadData has returned with the counts of data.json, no file existing
C15_Witness ==
    /\ load = "done" /\ ops = 0
    /\ disk.current = NoFile /\ disk.legacy = NoFile
    /\ pluginData = PluginWithCounts
    /\ data.fileWordCounts # EmptyMap

\* C16: when readExternalData meets a failing adapter call or a text that
\* JSON.parse rejects, it returns null: loadData does not reject, goes on
\* to plugin.loadData() with the data unchanged, and when it returns
\* initialized is set.
C16_StoreErrorsBecomeNotFound ==
    [][/\ load' # "failed"
       /\ (/\ StoreRead
           /\ \/ disk.current = MalformedFile
              \/ disk.current = NoFile /\ disk.legacy = MalformedFile
              \/ (disk.current # NoFile \/ disk.legacy # NoFile) /\ ~last'.io.read
              \/ disk.current = NoFile /\ disk.legacy # NoFile /\ ~last'.io.remove)
          => load' = "plugin" /\ data' = data
       /\ load = "plugin" => load' \in {"plugin", "done"}
       /\ LoadReturns => initialized']_vars

\* loadData has returned, initialized set, with a current file that
\* JSON.parse rejects
C16_Witness ==
    /\ load = "done" /\ initialized
    /\ disk.current = MalformedFile

\* C17: when saveData returns in updateWordCount or resetToday, whether
\* the write succeeded or failed, the data is unchanged and the call goes
\* on to notifyUpdate; when it returns in a pass the data is unchanged and
\* syncFileCounts returns; a failed write leaves the file as it was and a
\* successful one leaves the text of that save; and the text of every save
\* is that of the whole data at the time of the save, so that it holds the
\* changes whose own save failed.
C17_WriteFailureIsSwallowed ==
    [][/\ \A c \in BagToSet(calls) :
             (c.pc = "write" /\ Leaves(c)) =>
                 /\ data' = data
                 /\ last'.op = "notifyUpdate"
                 /\ disk' = disk \/ disk' = [disk EXCEPT !.current = c.payload]
       /\ \A k \in DOMAIN passes :
             (passes[k].pc = "write" /\ PassMoves(k)) =>
                 /\ data' = data
                 /\ passes'[k].pc = "end"
                 /\ \/ disk' = disk
                    \/ disk' = [disk EXCEPT !.current = passes[k].payload]
       /\ \A c \in BagToSet(calls') :
             (c.pc = "write" /\ Enters(c)) => c.payload = JSONStringify(data')
       /\ \A k \in DOMAIN passes' :
             (passes'[k].pc = "write"
              /\ (k \notin DOMAIN passes \/ passes[k].pc # "write"))
                 => passes'[k].payload = JSONStringify(data')]_vars

\* an operation has changed the data of a tracker that had no file, has
\* gone on to notifyUpdate, and there is still no file: its write failed
C17_Witness ==
    /\ load = "done" /\ last.op = "notifyUpdate"
    /\ calls = EmptyBag /\ passes = <<>>
    /\ data # EmptyData
    /\ disk.current = NoFile

\* C18: when syncFileCounts has returned, no update or reset having
\* changed the data during the pass, and the read of some document failed:
\* no document whose read failed has an entry; the entries are those that
\* existed for listed documents and those of the first-seen documents whose
\* read succeeded, each the count of the content read; and if an entry was
\* removed or added, saveData has been called.
C18_ReadFailureSkipsOneDocument ==
    \A k \in DOMAIN passes :
        LET p == passes[k]
        IN  (p.pc = "end" /\ p.quiet /\ p.failed # {}) =>
                /\ p.failed \cap DOMAIN data.fileWordCounts = {}
                /\ DOMAIN p.seeded = FirstSeenPaths(p) \ p.failed
                /\ DOMAIN data.fileWordCounts = KeptPaths(p) \cup DOMAIN p.seeded
                /\ \A path \in DOMAIN p.seeded :
                      data.fileWordCounts[path] = countWords(p.seeded[path])
                /\ (DOMAIN p.seeded # {}
                    \/ DOMAIN p.start.fileWordCounts # KeptPaths(p)) => p.saved

\* a pass has returned in which the read of the first document failed and
\* the second document got its baseline, which was saved
C18_Witness ==
    \E k \in DOMAIN passes :
        LET p == passes[k]
        IN  /\ p.pc = "end" /\ p.quiet /\ p.saved
            /\ p.failed = {"a.md"}
            /\ DOMAIN p.seeded = {"b.md"}

\* C19: when vault.read rejects in updateWordCount, the call ends there:
\* the data, the file and the passes are unchanged, the other calls in
\* flight stay as they are, and nothing of the call stays in flight (no
\* save and no notifyUpdate of it follows).
C19_UpdateReadFailureAbandonsUpdate ==
    [][last'.op = "vault.read rejected" =>
          /\ data' = data
          /\ disk' = disk
          /\ passes' = passes
          /\ \E c \in BagToSet(calls) :
                /\ c.kind = "update" /\ c.pc = "read"
                /\ calls' = calls (-) One(c)]_vars

\* the read of an update has just been rejected while a pass is in flight,
\* waiting for a read of its own
C19_Witness ==
    /\ last.op = "vault.read rejected"
    /\ \E k \in DOMAIN passes : passes[k].pc = "read"

\* C20: a step of updateWordCount or resetToday that changes the data
\* calls saveData in the same step, with the text of the whole new data; a
\* step of a pass that changes the data sets hasChanges, which stays set,
\* and a pass with hasChanges set returns only after saveData, called with
\* the text of the whole data.
C20_WriteThrough ==
    [][/\ (load = "done" /\ data' # data) =>
             \/ \E c \in BagToSet(calls') :
                   /\ Enters(c) /\ c.pc = "write"
                   /\ c.payload = JSONStringify(data')
             \/ \E k \in DOMAIN passes' :
                   /\ k \notin DOMAIN passes \/ passes[k].pc = "cont"
                   /\ passes'[k].hasChanges
       /\ \A k \in DOMAIN passes' :
             LET q == passes'[k]
             IN  /\ (k \in DOMAIN passes /\ Len(passes') = Len(passes)
                     /\ passes[k].hasChanges) => q.hasChanges
                 /\ (q.pc = "end" /\ q.hasChanges) => q.saved
                 /\ (q.pc = "write"
                     /\ (k \notin DOMAIN passes \/ passes[k].pc # "write"))
                        => q.hasChanges /\ q.payload = JSONStringify(data')]_vars

\* a pass that seeded a baseline has saved, and the file holds the data
C20_Witness ==
    \E k \in DOMAIN passes :
        LET p == passes[k]
        IN  /\ p.pc = "end" /\ p.saved /\ p.hasChanges
            /\ DOMAIN p.seeded # {}
            /\ disk.current = JSONStringify(data)

\* this step emits 'heatmap-update' (notifyUpdate, lines 188-190)
Notifies == last'.op = "notifyUpdate"

\* the save of an updateWordCount or of a resetToday returns in this step
CallSaveReturns == \E c \in BagToSet(calls) : c.pc = "write" /\ Leaves(c)

\* the save of a pass returns in this step
PassSaveReturns ==
    \E k \in DOMAIN passes : passes[k].pc = "write" /\ PassMoves(k)

\* C21 as stated: the step in which the save of an updateWordCount, of a
\* resetToday or of a reconciliation pass that changed DocumentSnapshot
\* returns emits the notification.
C21_EveryMutationNotifies ==
    [][(CallSaveReturns \/ PassSaveReturns) => Notifies]_vars

\* C21: every updateWordCount that has changed the data and every
\* resetToday emits the notification in the step in which its save
\* returns, whether the write succeeded or failed, and not before; no
\* other step emits one: a reconciliation pass emits none, whether or not
\* it changed DocumentSnapshot.
C21_UpdateAndResetNotify ==
    [][/\ CallSaveReturns => Notifies
       /\ Notifies => CallSaveReturns
       /\ \A c \in BagToSet(calls') : Enters(c) => ~Notifies]_vars

\* a resetToday has emitted its notification while a pass that seeded a
\* baseline has saved and emitted none
C21_Witness ==
    /\ last.op = "notifyUpdate"
    /\ calls = EmptyBag
    /\ \E k \in DOMAIN passes :
          /\ passes[k].pc = "end" /\ passes[k].saved
          /\ DOMAIN passes[k].seeded # {}

\* C22: the step of resetToday sets the total of today to 0 and leaves
\* every other total and every baseline as it was, calls saveData with the
\* text of the new data, and getTodayCount() is 0 after it; when that save
\* returns the call emits the notification and changes nothing else.
C22_ResetToday ==
    [][/\ ResetStep =>
             /\ data'.dailyCounts = Put(data.dailyCounts, getTodayString, 0)
             /\ data'.fileWordCounts = data.fileWordCounts
             /\ getTodayCount' = 0
             /\ \E c \in BagToSet(calls') :
                   /\ c.kind = "reset" /\ Enters(c) /\ c.pc = "write"
                   /\ c.payload = JSONStringify(data')
       /\ \A c \in BagToSet(calls) :
             (c.kind = "reset" /\ Leaves(c)) => Notifies /\ data' = data]_vars

\* resetToday has been called on a day for which the file holds a total
\* above 0, with a total of another day and baselines recorded: today's
\* total is 0, the others stand, and the save is pending
C22_Witness ==
    /\ \E c \in BagToSet(calls) : c.kind = "reset" /\ c.pc = "write"
    /\ getTodayCount = 0 /\ Has(data.dailyCounts, getTodayString)
    /\ disk.current.kind = "json"
    /\ GetOr0(JSONParse(disk.current).dailyCounts, getTodayString) > 0
    /\ TotalOf(data.dailyCounts, formatLocalDate(PreviousDate)) > 0
    /\ data.fileWordCounts # EmptyMap

\* C23: a step removes an entry of DocumentSnapshot only if it is the step
\* that starts a reconciliation pass and the path of the entry is not among
\* the files the vault lists to that pass; no step of updateWordCount, of
\* resetToday, of saveData or of the load removes an entry.
C23_OnlyPassPrunes ==
    [][\A path \in DOMAIN data.fileWordCounts :
          ~Has(data'.fileWordCounts, path) =>
              /\ Len(passes') > Len(passes)
              /\ path \notin Range(NewPass.files)]_vars

\* a pass has removed the entry of a document the vault no longer lists
\* and kept the other, and a resetToday made since has left that one
C23_Witness ==
    /\ \E c \in BagToSet(calls) : c.kind = "reset"
    /\ \E k \in DOMAIN passes :
          LET p == passes[k]
          IN  /\ ~p.quiet
              /\ DOMAIN p.start.fileWordCounts = {"a.md", "b.md"}
              /\ p.files = <<"b.md">>
              /\ DOMAIN data.fileWordCounts = {"b.md"}

\* the thresholds of settings are ascending: level1 < level2 < level3 < max
Ascending(settings) ==
    /\ settings.level1Threshold < settings.level2Threshold
    /\ settings.level2Threshold < settings.level3Threshold
    /\ settings.level3Threshold < settings.maxThreshold

ParseDate(key) ==
    [year |-> key[1],
     month |-> key[2][1] * 10 + key[2][2],
     day |-> key[3][1] * 10 + key[3][2]]

\* the tracker is as it was: a step that only reads
ReadOnlyStep ==
    UNCHANGED <<data, initialized, syncPromise, passes, calls, load,
                scheduled, layoutReady, disk, pluginData, clock, exported,
                pluginSettings, vault>>

\* C25: getRecentData(days), for days >= 1, returns a mapping of exactly
\* days keys, the dates of today and of the days - 1 days before it, each
\* with the total recorded for the date or 0 when there is none; the value
\* of today is what getTodayCount() returns; the call changes nothing.
C25_RecentData ==
    [][last'.op = "getRecentData" =>
          LET r == last'.result
              days == last'.days
          IN  /\ Cardinality(DOMAIN r) = days
              /\ \A k \in DOMAIN r :
                    /\ formatLocalDate(ParseDate(k)) = k
                    /\ \E i \in 0..(days - 1) : AddDays(ParseDate(k), i) = Today
                    /\ r[k] = TotalOf(data.dailyCounts, k)
              /\ Has(r, getTodayString)
              /\ r[getTodayString] = getTodayCount
              /\ ReadOnlyStep]_vars

\* on 2026-01-01 getRecentData(3) has returned three dates, one of them of
\* 2025 with words and one without an entry in the totals
C25_Witness ==
    /\ last.op = "getRecentData" /\ last.days = 3
    /\ Today = [year |-> 2026, month |-> 1, day |-> 1]
    /\ \E k \in DOMAIN last.result :
          k[1] = 2025 /\ last.result[k] > 0
    /\ \E k \in DOMAIN last.result :
          ~Has(data.dailyCounts, k) /\ last.result[k] = 0

\* the sum of the values of a mapping of naturals: the size of the bag that
\* holds each key as many times as its value
SumOf(m) == BagCardinality([k \in {x \in DOMAIN m : m[x] > 0} |-> m[k]])

\* C26: the summary exportData() returns has totalDays equal to the number
\* of keys of DailyTotals and totalWords equal to the sum of its values (0
\* and 0 for empty totals), and the call changes nothing of the tracker.
C26_ExportTotals ==
    [][last'.op = "exportData" =>
          LET r == last'.result
          IN  /\ r.totalDays = Cardinality(DOMAIN data.dailyCounts)
              /\ r.totalWords = SumOf(data.dailyCounts)
              /\ data.dailyCounts = EmptyMap =>
                    r.totalDays = 0 /\ r.totalWords = 0
              /\ UNCHANGED <<data, initialized, syncPromise, passes, calls,
                             load, scheduled, layoutReady, disk, pluginData,
                             clock>>]_vars

\* exportData has returned the summary of totals that hold a day of 0
\* words among days with words
C26_Witness ==
    /\ last.op = "exportData"
    /\ last.result.totalDays >= 3
    /\ last.result.totalWords >= 2 * last.result.totalDays
    /\ \E k \in DOMAIN data.dailyCounts : data.dailyCounts[k] = 0

\* C27 as stated: the dailyCounts of the summary exportData() returned is a
\* copy: whatever the tracker does afterwards, the holder of the summary
\* reads in it the mapping of the moment of the call.
C27_ExportIsACopy ==
    exported # Null =>
        MappingOf(exported.summary.dailyCounts) = exported.atExport

\* the day i days before today has words recorded in DailyTotals (by the
\* calendar of NextDate)
WordsDaysAgo(i) ==
    \E k \in DOMAIN data.dailyCounts :
        data.dailyCounts[k] > 0 /\ AddDays(ParseDate(k), i) = Today

\* the length of the maximal run of consecutive dates that ends at today,
\* each with a total above 0; 0 when today has none
RunEndingToday ==
    CHOOSE n \in 0..Cardinality(DOMAIN data.dailyCounts) :
        /\ \A i \in 0..(n - 1) : WordsDaysAgo(i)
        /\ ~WordsDaysAgo(n)

\* C28 as stated: the currentStreak the view shows is the length of the
\* maximal run of consecutive dates ending at today whose totals are not
\* 0, whatever the totals and whatever today, the first days of a year
\* included.
C28_CurrentStreakIsRunEndingToday ==
    last.op = "render" => last.stats.currentStreak = RunEndingToday

\* the dates of the year that have elapsed: from 1 January to today
ElapsedOfYear(year) ==
    {k \in DOMAIN data.dailyCounts :
        ParseDate(k).year = year /\ DateLE(ParseDate(k), Today)}

\* those of them that have words
ActiveOfYear(year) == {k \in ElapsedOfYear(year) : data.dailyCounts[k] > 0}

\* n consecutive dates of the year, up to today, all have words
RunOfLength(year, n) ==
    n = 0 \/ \E k \in ActiveOfYear(year) :
                \A i \in 0..(n - 1) :
                    formatLocalDate(AddDays(ParseDate(k), i)) \in ActiveOfYear(year)

\* C29: over the dates of the year that have elapsed, the totalWords of
\* getYearStats is the sum of the totals, activeDays the number of dates
\* whose total is not 0, and longestStreak the length of the longest run of
\* consecutive dates whose totals are not 0; computing them changes
\* nothing.
C29_YearStats ==
    [][last'.op = "render" =>
          LET year == last'.year
              stats == last'.stats
              active == ActiveOfYear(year)
          IN  /\ year = Today.year
              /\ stats.totalWords =
                     SumOf([k \in ElapsedOfYear(year) |-> data.dailyCounts[k]])
              /\ stats.activeDays = Cardinality(active)
              /\ RunOfLength(year, stats.longestStreak)
              /\ ~RunOfLength(year, stats.longestStreak + 1)
              /\ ReadOnlyStep]_vars

\* the view has been rendered on 2026-01-03 over totals with words on the
\* 1st and the 3rd and none on the 2nd, and words in 2025: two active
\* days, the longest run is of one day
C29_Witness ==
    /\ last.op = "render"
    /\ Today = [year |-> 2026, month |-> 1, day |-> 3]
    /\ last.stats.activeDays = 2 /\ last.stats.longestStreak = 1
    /\ last.stats.totalWords < SumOf(data.dailyCounts)

\* the maximal runs of characters of s that are neither white space nor
\* CJK, each counted at its last character
Tokens(s) ==
    Cardinality({i \in 1..Len(s) :
        /\ s[i] \notin WhiteSpace /\ ~IsCJK(s[i])
        /\ i = Len(s) \/ s[i + 1] \in WhiteSpace \/ IsCJK(s[i + 1])})

\* C30: countWords(text) is a function of its text alone and changes
\* nothing: it is the number of CJK characters plus the number of
\* white-space separated tokens of the other characters, of the text
\* without its fenced code blocks, inline code spans, link targets and
\* markdown punctuation; "" gives 0, a fenced block followed by "plain"
\* gives 1 and "你好 world" gives 3.
C30_CountWords ==
    [][last'.op = "countWords" =>
          LET text == last'.text
              n == last'.result
              cjk == Cardinality({i \in 1..Len(CleanText(text)) :
                                     IsCJK(CleanText(text)[i])})
          IN  /\ n = cjk + Tokens(CleanText(text))
              /\ text = TextEmpty => n = 0
              /\ text = TextFencePlain => n = 1
              /\ text = TextCJKWorld => n = 3
              /\ text = TextHeading => n = 1
              /\ text = TextLink => n = 3
              /\ ReadOnlyStep]_vars

\* countWords has been applied to the fenced block followed by "plain",
\* in a tracker that has totals, and has returned 1
C30_Witness ==
    /\ last.op = "countWords"
    /\ last.text = TextFencePlain /\ last.result = 1
    /\ data.dailyCounts # EmptyMap

\* C31: normalizeData never throws and returns exactly the two fields: a
\* field the payload has is returned as it is, a field it lacks (the
\* payload being null, empty, or holding one of the two) is an empty
\* mapping; a state already normalized is returned unchanged; the call
\* changes nothing.
C31_NormalizeData ==
    [][last'.op = "normalizeData" =>
          LET source == last'.source
              r == last'.result
              has(f) == source # Null /\ f \in DOMAIN source
          IN  /\ DOMAIN r = {"dailyCounts", "fileWordCounts"}
              /\ \A f \in {"dailyCounts", "fileWordCounts"} :
                    r[f] = IF has(f) THEN source[f] ELSE EmptyMap
              /\ normalizeData(r) = r
              /\ source = data => r = data
              /\ ReadOnlyStep]_vars

\* normalizeData has been given a payload that holds baselines and no
\* daily counts
C31_Witness ==
    /\ last.op = "normalizeData"
    /\ last.source = BaselinesOnly
    /\ last.result.dailyCounts = EmptyMap
    /\ last.result.fileWordCounts = BaselinesOnly.fileWordCounts

\* C32 as stated: from the default settings, whatever edits of the
\* thresholds the settings tab accepts, the thresholds stay ascending:
\* level1Threshold < level2Threshold < level3Threshold < maxThreshold.
C32_ThresholdsStayAscending == Ascending(pluginSettings)

\* a file that exists and that JSON.parse accepts (an empty file is read
\* as {})
Readable(raw) == raw \notin {NoFile, MalformedFile}

\* the state a readable file holds
StateOf(raw) ==
    normalizeData(IF raw = EmptyFile THEN EmptyMap ELSE JSONParse(raw))

\* readExternalData returns in this step and found the legacy file only,
\* with a payload that JSON.parse accepts
FoundLegacy ==
    /\ StoreRead
    /\ disk.current = NoFile
    /\ Readable(disk.legacy) /\ disk.legacy # EmptyFile

\* C33 as stated: when a load has found a legacy payload, afterwards the
\* legacy file is still there as it was, or the current file holds the
\* normalized payload, whichever adapter call failed.
C33_MigrationKeepsThePayload ==
    [][FoundLegacy =>
         \/ disk'.legacy = disk.legacy
         \/ disk'.current = JSONStringify(StateOf(disk.legacy))]_vars

\* C34 as stated: when the legacy payload has been read and parsed,
\* loadData installs its normalized content, also when the write of the
\* migration or the removal of the legacy file fails.
C34_ReadablePayloadIsLoaded ==
    [][(FoundLegacy /\ last'.io.read) =>
         /\ load' = "done"
         /\ data' = StateOf(disk.legacy)]_vars

\* C35: when both the current and the legacy file exist, readExternalData
\* leaves both files as they are, and what it returns is decided by the
\* current file alone: its normalized payload is installed when the read
\* succeeds and the text parses, and otherwise the load goes on to
\* plugin.loadData() with the data unchanged, whatever the legacy file
\* holds.
C35_CurrentFileWins ==
    [][(StoreRead /\ disk.current # NoFile /\ disk.legacy # NoFile) =>
         /\ disk' = disk
         /\ IF Readable(disk.current) /\ last'.io.read
            THEN load' = "done" /\ data' = StateOf(disk.current)
            ELSE load' = "plugin" /\ data' = data]_vars

\* the saved state has just been loaded from the current file, next to a
\* legacy file that is still there
C35_Witness ==
    /\ last.op = "readExternalData" /\ load = "done"
    /\ disk.current = JSONStringify(SavedData) /\ disk.legacy # NoFile
    /\ data = SavedData

\* scheduleSyncFileCounts is called in this step
Triggered == ops' = ops + 1 /\ last'.op = "scheduleSyncFileCounts"

\* C36: the flag is set exactly while a pass is in flight; a pass that
\* has started ends and the flag is cleared, whether syncFileCounts
\* returned or threw; and a trigger that finds the flag clear starts a new
\* pass and sets it.
C36_FlagClearedWhenPassEnds ==
    /\ [](syncPromise <=> passes # <<>>)
    /\ [][(Triggered /\ ~syncPromise) =>
             /\ syncPromise'
             /\ passes = <<>> /\ Len(passes') = 1]_vars
    /\ syncPromise ~> ~syncPromise

\* a pass whose syncFileCounts threw has ended, and the next trigger has
\* started a new pass
C36_Witness ==
    /\ last.op = "scheduleSyncFileCounts"
    /\ ~last.running
    /\ last.after.op = "syncFileCounts returned"
    /\ last.after.thrown
    /\ syncPromise /\ Len(passes) = 1

\* no call is in flight
Quiescent == calls = EmptyBag /\ passes = <<>>

\* the documents that were rewritten
Edited == {path \in MdPaths : vault[path].rev > 0}

\* C37 as stated: once every updateWordCount call has completed, the
\* baseline of each rewritten document is the word count of its latest
\* text, in whatever order the reads of overlapping calls were delivered.
C37_BaselineIsLatestCount ==
    Quiescent =>
        \A path \in Edited :
            /\ Has(data.fileWordCounts, path)
            /\ data.fileWordCounts[path] = countWords(vault[path].text)

\* every updateWordCount call has changed the data (its save may be
\* pending)
AllApplied == \A c \in BagToSet(calls) : c.pc = "write"

\* the only operations were one rewrite of each rewritten document
OneEditEach ==
    /\ \A path \in MdPaths : vault[path].rev <= 1
    /\ ops = Cardinality(Edited)

\* what the rewrite of a document adds to today's total, given the
\* baseline the document had before the calls
Growth(path) ==
    LET diff == countWords(vault[path].text) - SavedData.fileWordCounts[path]
    IN  IF diff > 0 THEN diff ELSE 0

\* C38: when documents were rewritten once each and every updateWordCount
\* call has changed the data, in whatever order the calls were
\* interleaved, today's total has grown by the sum over the rewritten
\* documents of max(0, new count - baseline before the calls), and the
\* baseline of each rewritten document is its new count.
C38_NoIncrementLost ==
    (AllApplied /\ OneEditEach) =>
        /\ getTodayCount = GetOr0(SavedData.dailyCounts, getTodayString)
                           + SumOf([path \in Edited |-> Growth(path)])
        /\ \A path \in Edited :
               data.fileWordCounts[path] = countWords(vault[path].text)
        /\ \A path \in MdPaths \ Edited :
               data.fileWordCounts[path] = SavedData.fileWordCounts[path]

\* two calls for different documents were in flight together, each has
\* added two words, and both saves are pending
C38_Witness ==
    /\ OneEditEach /\ AllApplied
    /\ BagCardinality(calls) = 2
    /\ Edited = MdPaths
    /\ \A path \in MdPaths : Growth(path) = 2
    /\ getTodayCount = 4

\* C39 as stated: when no operation is in flight and no save has failed,
\* the current file holds the text of the data in memory, in whatever
\* order the writes of overlapping saves completed.
C39_FileEqualsState ==
    Quiescent => disk.current = JSONStringify(data)

=============================================================================
